---- MODULE Spec2Model ----
(***************************************************************************)
(* Risk pipeline and execution loop of the trading engine.                 *)
(*                                                                         *)
(* Units.  The source computes in floats; the model computes in integers:  *)
(*   prices            points            (price * 100, 1 point = 0.01)     *)
(*   lot sizes         milli-lots        (lots * 1000)                     *)
(*   money, P&L        cents             (dollars * 100)                   *)
(*   risk percent      milli-percent     (percent * 1000, 0.5% = 500)      *)
(*   sizer inputs      dollars and 1/400 percent (see PositionSizer)       *)
(*   time              minutes                                             *)
(* A quotient that the source rounds or compares is kept as an exact       *)
(* fraction and compared by cross-multiplication.                          *)
(***************************************************************************)
EXTENDS Integers, Sequences, FiniteSets, TLC

VARIABLES
    cb,                \* CircuitBreaker: the mutable fields of the object
    now,               \* datetime.now(), the wall clock, in minutes
    tradeHistory,      \* app.trades rows with exit_time set, newest exit first
    newTrades,         \* number of exits recorded since start-up
    events,            \* calls of record_circuit_breaker_event, in order
    lastCall,          \* the last check_halts call: inputs, prior state, result
    sizer,             \* PositionSizer: min_lot_size and max_lot_size, milli-lots
    sizing,            \* the last calculate_lot_size call: inputs and result
    mode,              \* "live" (ExecutionLoop) or "backtest" (BacktestRunner)
    positions,         \* positions open at the broker or in the simulator
    deals,             \* closing deals in the broker's history
    previous_open_positions,   \* ExecutionLoop.previous_open_positions
    dbOpen,            \* app.trades rows without exit_time
    accountEquity,     \* AccountInfo.equity, cents
    startingEquity,    \* self.starting_equity, cents
    next_ticket,       \* the ticket of the next position
    lastCycle,         \* the last cycle: what it saw and whether it sent an order
    partial_exits,     \* PositionManager.partial_exits: ticket -> tracking record
    partialLog,        \* the partial closes the broker has executed, in order
    lastMonitor,       \* the last monitor_positions call: inputs and dispatches
    probe,             \* the last call of a function driven on its own: inputs, result
    m1_count,          \* len(BacktestMT5Connector.m1_candles)
    current_time_index,    \* BacktestMT5Connector.current_time_index
    phase,             \* where run_backtest is: "loop", "closing", "done"
    stamps,            \* run_backtest: the times written by the breaker and the recorder
    running,           \* ExecutionLoop.running
    connected,         \* the broker session is held
    pool_open,         \* the database pool is open
    loopExit,          \* where ExecutionLoop.run is and how it left its loop
    closed_trades      \* BacktestOrderExecutor.closed_trades

breakerVars == <<cb, now, tradeHistory, newTrades, events, lastCall>>
sizerVars == <<sizer, sizing>>
loopVars == <<mode, positions, deals, previous_open_positions, dbOpen,
              accountEquity, startingEquity, next_ticket, lastCycle>>
managerVars == <<partial_exits, partialLog, lastMonitor>>
probeVars == <<probe>>
runVars == <<m1_count, current_time_index, phase, stamps>>
engineVars == <<running, connected, pool_open, loopExit>>
simVars == <<closed_trades>>
restVars == <<probeVars, runVars, engineVars, simVars>>
vars == <<breakerVars, sizerVars, loopVars, managerVars, restVars>>

----------------------------------------------------------------------------
(* Bounds of the model *)

MaxEquityExp == 3      \* equities of 100 * 10^k dollars, k up to this
MaxStopPoints == 45    \* largest stop distance given to the sizer, points
MaxOrders == 1         \* orders the loop may send after start-up
MaxNewTrades == 2      \* exits recorded after start-up
MaxTicks == 2          \* clock advances
TickMinutes == 30      \* minutes per clock advance
MaxWaits == 1          \* clock advances between the cycles of the loop

----------------------------------------------------------------------------
(* Configuration defaults of CircuitBreaker.__init__ and its callers *)

consecutive_losses_threshold == 3
losses_in_window == 5
window_size == 7
daily_drawdown_percent == 3
stopouts_in_window == 4
stopout_window_size == 5
halt_duration_minutes == 60
risk_per_trade == 500
min_confidence == 60
graduated_window == 3
after_1_loss_confidence_threshold == 70
after_2_losses_risk_percent == 300
after_2_losses_confidence_threshold == 75
breaker_point_value_per_lot == 1
history_limit == 10

NoTime == -1           \* halt_start_time = None

----------------------------------------------------------------------------
(* Sequence helpers *)

\* s[:n]
Take(s, n) == SubSeq(s, 1, IF Len(s) < n THEN Len(s) ELSE n)

IsLoss(t) == t.pnl < 0
IsWin(t) == t.pnl > 0
IsStopout(t) == t.exit_reason = "stop_loss"

Losses(s) == Cardinality({i \in 1..Len(s) : IsLoss(s[i])})
Stopouts(s) == Cardinality({i \in 1..Len(s) : IsStopout(s[i])})

----------------------------------------------------------------------------
(* CircuitBreaker *)

InitialBreaker ==
    [halted |-> FALSE,
     halt_reason |-> "none",
     halt_start_time |-> NoTime,
     loss_count |-> 0,
     adjusted_risk_percent |-> risk_per_trade,
     adjusted_confidence_threshold |-> min_confidence]

\* Mutant: the window of the consecutive-loss check is one trade short.
ConsecutiveLossesHit_short(trade_history) ==
    /\ Len(trade_history) >= consecutive_losses_threshold - 1
    /\ \A i \in 1..(consecutive_losses_threshold - 1) : trade_history[i].pnl < 0

\* The four halt predicates, as check_halts evaluates them.
ConsecutiveLossesHit(trade_history) ==
    /\ Len(trade_history) >= consecutive_losses_threshold
    /\ \A i \in 1..consecutive_losses_threshold : IsLoss(trade_history[i])

LossesInWindowHit(trade_history) ==
    /\ Len(trade_history) >= window_size
    /\ Losses(Take(trade_history, window_size)) >= losses_in_window

\* (daily_pnl / starting_equity) * 100 <= -daily_drawdown_percent
DailyDrawdownHit(daily_pnl, starting_equity) ==
    /\ starting_equity > 0
    /\ daily_pnl * 100 <= -(daily_drawdown_percent * starting_equity)

StopoutsHit(trade_history) ==
    /\ Len(trade_history) >= stopout_window_size
    /\ Stopouts(Take(trade_history, stopout_window_size)) >= stopouts_in_window

\* Mutant: the halt is recorded again when the breaker is already halted.
TriggerHalt_unguarded(c, reason, t) ==
    [cb |-> [c EXCEPT !.halted = TRUE,
                      !.halt_reason = reason,
                      !.halt_start_time = t],
     emitted |-> <<[type |-> "halt", reason |-> reason]>>]

\* _trigger_halt: [cb, emitted]
TriggerHalt(c, reason, t) ==
    IF ~c.halted
    THEN [cb |-> [c EXCEPT !.halted = TRUE,
                           !.halt_reason = reason,
                           !.halt_start_time = t],
          emitted |-> <<[type |-> "halt", reason |-> reason]>>]
    ELSE [cb |-> c, emitted |-> <<>>]

\* Mutant: the one-loss step needs two losses, so one loss changes nothing.
AdjustRiskParameters_late(c, trade_history) ==
    IF trade_history = <<>>
    THEN c
    ELSE LET recent_losses ==
                 Cardinality({i \in 1..Len(trade_history) :
                                 i <= graduated_window /\ trade_history[i].pnl < 0})
             c0 == [c EXCEPT !.loss_count = recent_losses]
         IN  IF recent_losses >= 2
             THEN [c0 EXCEPT !.adjusted_risk_percent = after_2_losses_risk_percent,
                             !.adjusted_confidence_threshold =
                                 after_2_losses_confidence_threshold]
             ELSE c0

\* Mutant: with fewer than two losses among the recent trades the risk
\* percent goes back to its default.
AdjustRiskParameters_restoring(c, trade_history) ==
    IF trade_history = <<>>
    THEN c
    ELSE LET recent_losses == Losses(Take(trade_history, graduated_window))
             c0 == [c EXCEPT !.loss_count = recent_losses]
             c1 == IF recent_losses >= 1
                   THEN [c0 EXCEPT !.adjusted_confidence_threshold =
                                       after_1_loss_confidence_threshold]
                   ELSE c0
         IN  IF recent_losses >= 2
             THEN [c1 EXCEPT !.adjusted_risk_percent = after_2_losses_risk_percent,
                             !.adjusted_confidence_threshold =
                                 after_2_losses_confidence_threshold]
             ELSE [c1 EXCEPT !.adjusted_risk_percent = risk_per_trade]

\* _adjust_risk_parameters
AdjustRiskParameters(c, trade_history) ==
    IF trade_history = <<>>
    THEN c
    ELSE LET recent_losses == Losses(Take(trade_history, graduated_window))
             c0 == [c EXCEPT !.loss_count = recent_losses]
             c1 == IF recent_losses >= 1
                   THEN [c0 EXCEPT !.adjusted_confidence_threshold =
                                       after_1_loss_confidence_threshold]
                   ELSE c0
         IN  IF recent_losses >= 2
             THEN [c1 EXCEPT !.adjusted_risk_percent = after_2_losses_risk_percent,
                             !.adjusted_confidence_threshold =
                                 after_2_losses_confidence_threshold]
             ELSE c1

\* The single-win branch of _check_reset_conditions: pnl >= 1.5 * R with
\* R = stop_distance_points * point_value_per_lot * lot_size.
\* pnl is in cents and lot_size in milli-lots: pnl/100 >= 1.5 * d * v * lot/1000.
SignificantWin(last_trade) ==
    /\ last_trade.pnl > 0
    /\ last_trade.entry_price > 0
    /\ last_trade.stop_loss > 0
    /\ last_trade.lot_size > 0
    /\ LET stop_distance_points ==
               IF last_trade.direction = "buy"
               THEN last_trade.entry_price - last_trade.stop_loss
               ELSE last_trade.stop_loss - last_trade.entry_price
           risk_amount_r ==
               stop_distance_points * breaker_point_value_per_lot * last_trade.lot_size
       IN  /\ risk_amount_r > 0
           /\ 20 * last_trade.pnl >= 3 * risk_amount_r

\* _check_reset_conditions
CheckResetConditions(trade_history) ==
    IF Len(trade_history) < 2
    THEN FALSE
    ELSE IF IsWin(trade_history[1]) /\ IsWin(trade_history[2])
         THEN TRUE
         ELSE SignificantWin(trade_history[1])

\* _reset: [cb, emitted]
Reset(c) ==
    [cb |-> [c EXCEPT !.halted = FALSE,
                      !.halt_reason = "none",
                      !.halt_start_time = NoTime,
                      !.loss_count = 0,
                      !.adjusted_risk_percent = risk_per_trade,
                      !.adjusted_confidence_threshold = min_confidence],
     emitted |-> <<[type |-> "reset", reason |-> "Reset to default parameters"]>>]

\* Mutant: the halt duration is not waited for.
HaltExpired_early(c, t) ==
    /\ c.halted
    /\ c.halt_start_time # NoTime

\* elapsed >= halt_duration_minutes, for a breaker with a halt start time
HaltExpired(c, t) ==
    /\ c.halted
    /\ c.halt_start_time # NoTime
    /\ t - c.halt_start_time >= halt_duration_minutes

HaltResult(c, reason, t) ==
    LET h == TriggerHalt(c, reason, t)
    IN  [cb |-> h.cb,
         ret |-> [halted |-> TRUE, reason |-> reason,
                  duration_minutes |-> halt_duration_minutes],
         emitted |-> h.emitted]

\* check_halts: [cb, ret, emitted]
CheckHalts(c, trade_history, daily_pnl, starting_equity, t) ==
    IF HaltExpired(c, t)
    THEN IF CheckResetConditions(trade_history)
         THEN LET r == Reset(c)
              IN  [cb |-> r.cb,
                   ret |-> [halted |-> FALSE,
                            reason |-> "Halt period expired and reset conditions met",
                            duration_minutes |-> 0],
                   emitted |-> r.emitted]
         ELSE [cb |-> c,
               ret |-> [halted |-> TRUE, reason |-> c.halt_reason,
                        duration_minutes |->
                            halt_duration_minutes - (t - c.halt_start_time)],
               emitted |-> <<>>]
    ELSE IF ConsecutiveLossesHit(trade_history)
         THEN HaltResult(c, "3_consecutive_losses", t)
    ELSE IF LossesInWindowHit(trade_history)
         THEN HaltResult(c, "5_losses_in_7_trades", t)
    ELSE IF DailyDrawdownHit(daily_pnl, starting_equity)
         THEN HaltResult(c, "daily_drawdown_3pct", t)
    ELSE IF StopoutsHit(trade_history)
         THEN HaltResult(c, "4_stopouts_in_5_trades", t)
    ELSE [cb |-> AdjustRiskParameters(c, trade_history),
          ret |-> [halted |-> FALSE, reason |-> "none", duration_minutes |-> 0],
          emitted |-> <<>>]

\* get_trade_history(limit): closed trades, ORDER BY exit_time DESC LIMIT limit
----------------------------------------------------------------------------
(* PositionSizer.  Lots are milli-lots, the equity given to
   calculate_lot_size is whole dollars, its risk_percent is in units of
   1/400 of a percent (0.5% is 200; every product of 0.5 or 0.3 with the
   session and trend multipliers is a whole number of them), stop distances
   are points.  A lot size that is not yet rounded is the exact fraction
   n / d of a milli-lot; round() is round-half-to-even on that fraction. *)

sizer_point_value_per_lot == 100
HARD_MAX_LOT == 100
MAX_RISK_PERCENT == 2

Rat(n, d) == [n |-> n, d |-> d]

RoundHalfEven(n, d) ==
    LET q == n \div d
        rem == n % d
    IN  IF 2 * rem < d THEN q
        ELSE IF 2 * rem > d THEN q + 1
        ELSE IF q % 2 = 0 THEN q ELSE q + 1

\* Mutant: no hard cap.
HardCap_off(lots) == lots

\* SAFETY CONTROL 1
HardCap(lots) ==
    IF lots.n > HARD_MAX_LOT * lots.d THEN Rat(HARD_MAX_LOT, 1) ELSE lots

\* max(self.min_lot_size, min(lots, self.max_lot_size))
ClampLots(s, lots) ==
    LET capped == IF s.max_lot_size * lots.d < lots.n
                  THEN Rat(s.max_lot_size, 1) ELSE lots
    IN  IF capped.n > s.min_lot_size * capped.d
        THEN capped ELSE Rat(s.min_lot_size, 1)

\* round(lots, 3) for micro lots, round(lots, 2) otherwise
RoundLots(s, lots) ==
    IF s.min_lot_size < 10
    THEN RoundHalfEven(lots.n, lots.d)
    ELSE 10 * RoundHalfEven(lots.n, 10 * lots.d)

\* max(self.min_lot_size, lots)
FloorAtMinLot(s, lots) ==
    IF lots > s.min_lot_size THEN lots ELSE s.min_lot_size

\* actual_risk_percent > MAX_RISK_PERCENT
ExceedsMaxRisk(lots, stop_distance_points, equity) ==
    lots * stop_distance_points * sizer_point_value_per_lot
        > 10 * MAX_RISK_PERCENT * equity

\* calculate_lot_size.  The test of stop_distance_points * point_value_per_lot
\* against 0 cannot succeed after the first test and is left out.
CalculateLotSize(s, equity, risk_percent, stop_distance_points) ==
    IF equity <= 0 \/ risk_percent <= 0 \/ stop_distance_points <= 0
    THEN s.min_lot_size
    ELSE LET raw == Rat(equity * risk_percent,
                        40 * sizer_point_value_per_lot * stop_distance_points)
             lots == FloorAtMinLot(s, RoundLots(s, ClampLots(s, HardCap(raw))))
             again == Rat(10 * MAX_RISK_PERCENT * equity,
                          sizer_point_value_per_lot * stop_distance_points)
         IN  IF ExceedsMaxRisk(lots, stop_distance_points, equity)
             THEN FloorAtMinLot(s, RoundLots(s, ClampLots(s, again)))
             ELSE lots

\* PositionSizer.__init__ with the lot limits of the configuration
SizerConfigs ==
    {[min_lot_size |-> mn, max_lot_size |-> mx] : mn \in {1, 10}, mx \in {50, 100, 300}}

DefaultSizer == [min_lot_size |-> 10, max_lot_size |-> 300]

NoSizing ==
    [called |-> FALSE, equity |-> 0, risk_percent |-> 0,
     stop_distance_points |-> 0, lots |-> 0]

----------------------------------------------------------------------------
(* Database: the rows of get_trade_history *)

GetTradeHistory(limit) == Take(tradeHistory, limit)

Trade(ticket, direction, entry_price, stop_loss, lot_size, pnl, exit_reason, today) ==
    [ticket |-> ticket, direction |-> direction, entry_price |-> entry_price,
     stop_loss |-> stop_loss, lot_size |-> lot_size, pnl |-> pnl,
     exit_reason |-> exit_reason, today |-> today]

\* Closed trades of a 0.02-lot position with a 33-point stop at 2000.00.

SampleTrade(kind, today) ==
    CASE kind = "loss_sl"   -> Trade(0, "buy", 200000, 199967, 20, -6600, "stop_loss", today)
      [] kind = "loss_time" -> Trade(0, "buy", 200000, 199967, 20, -500, "time_limit", today)
      [] kind = "stop_win"  -> Trade(0, "buy", 200000, 199967, 20, 40, "stop_loss", today)
      [] kind = "win_tp"    -> Trade(0, "sell", 200000, 200033, 20, 7920, "take_profit", today)
      [] kind = "big_win"   -> Trade(0, "buy", 200000, 199967, 20, 9900, "momentum_reversal", today)

Old(kinds) == [i \in 1..Len(kinds) |-> SampleTrade(kinds[i], FALSE)]

\* Trade tables found at start-up (the table outlives the process).
InitHistories ==
    { <<>>,
      Old(<<"loss_sl", "loss_time">>),
      Old(<<"loss_time", "win_tp", "loss_time", "loss_time", "win_tp", "loss_time">>),
      Old(<<"loss_sl", "stop_win", "loss_sl", "loss_sl">>),
      Old(<<"loss_sl", "loss_time", "loss_sl">>) }

----------------------------------------------------------------------------
(* The execution loop: ExecutionLoop.run_cycle and
   BacktestRunner.simulate_cycle.  Prices are points (hundredths of a
   dollar), stop_percent is hundredths, multipliers are hundredths or tenths,
   ATR and spread are points.  At most max_concurrent_positions = 1 position
   is open, so "each position" is the one position. *)

max_concurrent_positions == 1
first_ticket == 1000

Sessions == {"closed", "prime", "acceptable"}

\* is_trading_window: risk_multiplier, hundredths
RiskMultiplier(session_type) ==
    CASE session_type = "prime" -> 100
      [] session_type = "acceptable" -> 75
      [] OTHER -> 0

\* validate_atr
ValidateAtr(atr_value, atr_average) ==
    IF atr_value < 6
    THEN [valid |-> FALSE, confidence_adjustment |-> 0]
    ELSE IF atr_value > 12
    THEN [valid |-> FALSE, confidence_adjustment |-> 0]
    ELSE IF atr_average > 0 /\ 10 * atr_value > 18 * atr_average
    THEN [valid |-> FALSE, confidence_adjustment |-> 0]
    ELSE IF 8 <= atr_value /\ atr_value <= 11
    THEN [valid |-> TRUE, confidence_adjustment |-> 0]
    ELSE [valid |-> TRUE, confidence_adjustment |-> -10]

\* check_spread
CheckSpread(spread, session_type) ==
    LET max_spread == CASE session_type = "prime" -> 25
                        [] session_type = "acceptable" -> 35
                        [] OTHER -> 30
    IN  ~(spread > max_spread)

\* validate_signal: 'valid'
ValidateSignal(spread, atr_value, atr_average, equity, open_positions, session_type) ==
    /\ CheckSpread(spread, session_type)
    /\ ~(atr_average > 0 /\ 2 * atr_value > 5 * atr_average)
    /\ ~(equity <= 0)
    /\ ~(Cardinality(open_positions) >= max_concurrent_positions)

\* calculate_stop_distance: stop_percent * 100 + 3 points
CalculateStopDistance(stop_percent) == stop_percent + 3

\* calculate_take_profit with risk_reward_ratio 1.2, rounded to 2 decimals
CalculateTakeProfit(entry_price, stop_loss, direction) ==
    LET stop_distance == IF entry_price >= stop_loss
                         THEN entry_price - stop_loss ELSE stop_loss - entry_price
    IN  IF direction = "buy"
        THEN RoundHalfEven(10 * entry_price + 12 * stop_distance, 10)
        ELSE RoundHalfEven(10 * entry_price - 12 * stop_distance, 10)

\* abs(a - b)
Dist(a, b) == IF a >= b THEN a - b ELSE b - a

\* OrderValidator: lot limits in milli-lots, risk_reward_ratio.min in tenths
validator_min_lot == 10
validator_max_lot == 300
min_rr == 10

\* validate_order_parameters: 'valid'
ValidateOrderParameters(direction, lot_size, stop_loss, take_profit, entry_price) ==
    /\ ~(lot_size < validator_min_lot)
    /\ ~(lot_size > validator_max_lot)
    /\ IF direction = "buy" THEN ~(stop_loss >= entry_price)
                            ELSE ~(stop_loss <= entry_price)
    /\ IF direction = "buy" THEN ~(take_profit <= entry_price)
                            ELSE ~(take_profit >= entry_price)
    /\ ~(Dist(entry_price, stop_loss) = 0)
    /\ ~(10 * Dist(take_profit, entry_price) < min_rr * Dist(entry_price, stop_loss))

\* Mutant: the confidence is not compared again after the ATR adjustment.
RejectedAfterAtr_off(confidence, threshold) == FALSE

\* signal.confidence < min_confidence, first as generated, then as adjusted
RejectedByThreshold(confidence, threshold) == confidence < threshold
RejectedAfterAtr(confidence, threshold) == confidence < threshold

\* The mutable state a cycle works on
St ==
    [cb |-> cb, events |-> events, tradeHistory |-> tradeHistory,
     dbOpen |-> dbOpen, positions |-> positions, deals |-> deals,
     previous |-> previous_open_positions, equity |-> accountEquity,
     next_ticket |-> next_ticket]

RECURSIVE SumPnlToday(_)
SumPnlToday(rows) ==
    IF rows = <<>> THEN 0
    ELSE (IF Head(rows).today THEN Head(rows).pnl ELSE 0) + SumPnlToday(Tail(rows))

\* calculate_daily_pnl: SUM(pnl) of the trades entered today
CalculateDailyPnl(st) == SumPnlToday(st.tradeHistory)

RemoveAt(s, i) == SubSeq(s, 1, i - 1) \o SubSeq(s, i + 1, Len(s))

\* record_trade_entry
RecordTradeEntry(st, ticket, direction, entry_price, lot_size, stop_loss) ==
    [st EXCEPT !.dbOpen = @ \cup {Trade(ticket, direction, entry_price, stop_loss,
                                        lot_size, 0, "open", TRUE)}]

\* record_trade_exit: UPDATE of the row of the ticket, exit_time = now
RecordTradeExit(st, ticket, pnl, exit_reason) ==
    IF \E r \in st.dbOpen : r.ticket = ticket
    THEN LET r == CHOOSE r \in st.dbOpen : r.ticket = ticket
         IN  [st EXCEPT !.dbOpen = @ \ {r},
                        !.tradeHistory =
                            <<[r EXCEPT !.pnl = pnl, !.exit_reason = exit_reason]>> \o @]
    ELSE IF \E i \in 1..Len(st.tradeHistory) : st.tradeHistory[i].ticket = ticket
    THEN LET i == CHOOSE i \in 1..Len(st.tradeHistory) :
                      st.tradeHistory[i].ticket = ticket
             r == st.tradeHistory[i]
         IN  [st EXCEPT !.tradeHistory =
                            <<[r EXCEPT !.pnl = pnl, !.exit_reason = exit_reason]>>
                                \o RemoveAt(st.tradeHistory, i)]
    ELSE st

\* (price_diff / 0.01) * volume * 100 dollars, in cents
ClosePnl(p, exit_price) ==
    (IF p.direction = "buy" THEN exit_price - p.price_open
     ELSE p.price_open - exit_price) * p.volume * 10

\* _monitor_positions, the part for positions that left the broker's list
RECURSIVE RecordClosedByMt5(_, _)
RecordClosedByMt5(st, tickets) ==
    IF tickets = {} THEN st
    ELSE LET ticket == CHOOSE t \in tickets : TRUE
             st1 == IF \E d \in st.deals : d.ticket = ticket
                    THEN LET d == CHOOSE d \in st.deals : d.ticket = ticket
                             exit_reason ==
                                 CASE d.comment = "tp" -> "take_profit"
                                   [] d.comment = "sl" -> "stop_loss"
                                   [] OTHER -> "mt5_auto_close"
                         IN  RecordTradeExit(st, ticket, d.profit, exit_reason)
                    ELSE st
         IN  RecordClosedByMt5(st1, tickets \ {ticket})

Hold == [kind |-> "hold", reason |-> "none", profit |-> 0]

\* evaluate_exits on the market of the cycle, and position['profit']
ExitOutcomes ==
    {Hold} \cup {[kind |-> "close", reason |-> "time_limit", profit |-> pr] :
                    pr \in {-500, 9900}}

\* ExecutionLoop._monitor_positions; force_close has recorded the exit before
\* the loop records it again with the same values
MonitorPositionsLive(st, md_ok, outcome) ==
    LET current_open_tickets == {p.ticket : p \in st.positions}
        st1 == RecordClosedByMt5(st, st.previous \ current_open_tickets)
    IN  IF st.positions = {}
        THEN [st1 EXCEPT !.previous = {}]
        ELSE IF ~md_ok
        THEN [st1 EXCEPT !.previous = current_open_tickets]
        ELSE IF outcome.kind = "close"
        THEN LET p == CHOOSE p \in st.positions :
                          \A o \in st.positions : p.ticket <= o.ticket
                 closed == [st1 EXCEPT
                               !.positions = @ \ {p},
                               !.deals = @ \cup {[ticket |-> p.ticket,
                                                  profit |-> outcome.profit,
                                                  comment |-> "other"]},
                               !.equity = @ + outcome.profit]
                 once == RecordTradeExit(closed, p.ticket, outcome.profit, outcome.reason)
                 twice == RecordTradeExit(once, p.ticket, outcome.profit, outcome.reason)
             IN  [twice EXCEPT !.previous = current_open_tickets]
        ELSE [st1 EXCEPT !.previous = current_open_tickets]

\* BacktestRunner._monitor_positions with update_positions and close_position;
\* candle names the levels the current candle reaches
MonitorPositionsBacktest(st, candle) ==
    IF st.positions = {} \/ candle = "none"
    THEN st
    ELSE LET p == CHOOSE p \in st.positions : TRUE
             exit_price == IF candle \in {"sl", "both"} THEN p.sl ELSE p.tp
             exit_reason == IF candle \in {"sl", "both"} THEN "stop_loss" ELSE "take_profit"
             pnl == ClosePnl(p, exit_price)
         IN  RecordTradeExit([st EXCEPT !.positions = {}, !.equity = @ + pnl],
                             p.ticket, pnl, exit_reason)

MonitorInputs(st) ==
    IF st.positions = {}
    THEN {[md_ok |-> TRUE, outcome |-> Hold, candle |-> "none"]}
    ELSE IF mode = "live"
    THEN {[md_ok |-> m, outcome |-> o, candle |-> "none"] :
             m \in BOOLEAN, o \in ExitOutcomes}
    ELSE {[md_ok |-> TRUE, outcome |-> Hold, candle |-> c] :
             c \in {"none", "sl", "tp", "both"}}

MonitorPositions(st, mon) ==
    IF mode = "live"
    THEN MonitorPositionsLive(st, mon.md_ok, mon.outcome)
    ELSE MonitorPositionsBacktest(st, mon.candle)

----------------------------------------------------------------------------
(* ExitStrategy and PositionManager.  Profit percentages are hundredths of a
   percent, risk_reward_ratio is tenths, volumes are milli-lots.  candles
   tells what the last three M1 candles are: "bearish" or "bullish" when all
   three are, "mixed" otherwise, "few" when there are fewer than three. *)

time_limit_minutes == 15
breakeven_profit_percent == 15
breakeven_buffer_points == 2
partial_exit_1_percent == 20
partial_exit_1_close_percent == 50
partial_exit_2_percent == 35
partial_exit_2_close_percent == 30
risk_reward_ratio == 12

\* profit_price
ProfitPrice(p, current_price) ==
    IF p.direction = "buy" THEN current_price - p.price_open
    ELSE p.price_open - current_price

\* profit_percent >= percent, profit_percent = (profit_price / price_open) * 100
ProfitAtLeast(p, current_price, percent) ==
    10000 * ProfitPrice(p, current_price) >= percent * p.price_open

\* 1. current_price beyond price_open +/- stop_distance * risk_reward_ratio
TakeProfitReached(p, current_price) ==
    LET stop_distance == Dist(p.price_open, p.sl)
    IN  IF p.direction = "buy"
        THEN 10 * current_price >= 10 * p.price_open + risk_reward_ratio * stop_distance
        ELSE 10 * current_price <= 10 * p.price_open - risk_reward_ratio * stop_distance

\* 2. hold_time_minutes >= time_limit_minutes
TimeLimitReached(hold_time_minutes) == hold_time_minutes >= time_limit_minutes

\* 3. current_price at or beyond position.sl
StopLossReached(p, current_price) ==
    IF p.direction = "buy" THEN current_price <= p.sl ELSE current_price >= p.sl

\* 4. the last three M1 candles all run against the position
MomentumReversed(p, candles) ==
    IF p.direction = "buy" THEN candles = "bearish" ELSE candles = "bullish"

\* 5. new_sl of the breakeven protection
BreakevenStop(p) ==
    IF p.direction = "buy" THEN p.price_open + breakeven_buffer_points
    ELSE p.price_open - breakeven_buffer_points

BreakevenDue(p, current_price) ==
    /\ ProfitAtLeast(p, current_price, breakeven_profit_percent)
    /\ IF p.direction = "buy" THEN p.sl < BreakevenStop(p) ELSE p.sl > BreakevenStop(p)

CloseFor(exit_reason) ==
    [should_exit |-> TRUE, action |-> "close", exit_reason |-> exit_reason, new_sl |-> 0]

\* Mutant: the stop loss is looked at before the time limit.
EvaluateExits_sl_first(p, current_price, candles, hold_time_minutes) ==
    IF TakeProfitReached(p, current_price) THEN CloseFor("take_profit")
    ELSE IF StopLossReached(p, current_price) THEN CloseFor("stop_loss")
    ELSE IF TimeLimitReached(hold_time_minutes) THEN CloseFor("time_limit")
    ELSE IF MomentumReversed(p, candles) THEN CloseFor("momentum_reversal")
    ELSE IF BreakevenDue(p, current_price)
    THEN [should_exit |-> FALSE, action |-> "adjust_sl", exit_reason |-> "none",
          new_sl |-> BreakevenStop(p)]
    ELSE [should_exit |-> FALSE, action |-> "hold", exit_reason |-> "none", new_sl |-> 0]

\* evaluate_exits
EvaluateExits(p, current_price, candles, hold_time_minutes) ==
    IF TakeProfitReached(p, current_price) THEN CloseFor("take_profit")
    ELSE IF TimeLimitReached(hold_time_minutes) THEN CloseFor("time_limit")
    ELSE IF StopLossReached(p, current_price) THEN CloseFor("stop_loss")
    ELSE IF MomentumReversed(p, candles) THEN CloseFor("momentum_reversal")
    ELSE IF BreakevenDue(p, current_price)
    THEN [should_exit |-> FALSE, action |-> "adjust_sl", exit_reason |-> "none",
          new_sl |-> BreakevenStop(p)]
    ELSE [should_exit |-> FALSE, action |-> "hold", exit_reason |-> "none", new_sl |-> 0]

NoPartialExit ==
    [should_partial_exit |-> FALSE, close_percent |-> 0, move_sl_to_entry |-> FALSE,
     reason |-> "none"]

\* Mutant: the second tier does not wait for the first.
CheckPartialExit_untracked(p, current_price, partial_closed) ==
    IF ProfitAtLeast(p, current_price, partial_exit_2_percent)
    THEN [should_partial_exit |-> TRUE, close_percent |-> partial_exit_2_close_percent,
          move_sl_to_entry |-> FALSE, reason |-> "partial_exit_2"]
    ELSE IF ProfitAtLeast(p, current_price, partial_exit_1_percent) /\ ~partial_closed
    THEN [should_partial_exit |-> TRUE, close_percent |-> partial_exit_1_close_percent,
          move_sl_to_entry |-> TRUE, reason |-> "partial_exit_1"]
    ELSE NoPartialExit

\* check_partial_exit
CheckPartialExit(p, current_price, partial_closed) ==
    IF ProfitAtLeast(p, current_price, partial_exit_1_percent) /\ ~partial_closed
    THEN [should_partial_exit |-> TRUE, close_percent |-> partial_exit_1_close_percent,
          move_sl_to_entry |-> TRUE, reason |-> "partial_exit_1"]
    ELSE IF ProfitAtLeast(p, current_price, partial_exit_2_percent) /\ partial_closed
    THEN [should_partial_exit |-> TRUE, close_percent |-> partial_exit_2_close_percent,
          move_sl_to_entry |-> FALSE, reason |-> "partial_exit_2"]
    ELSE NoPartialExit

\* self.partial_exits.get(ticket, {}).get('closed', False)
PartialClosed(tracked, ticket) == \E r \in tracked : r.ticket = ticket /\ r.closed

\* The state monitor_positions works on
Pm ==
    [positions |-> positions, partial_exits |-> partial_exits,
     partialLog |-> partialLog, tradeHistory |-> tradeHistory, dbOpen |-> dbOpen,
     evals |-> <<>>, actions |-> <<>>]

HasPosition(pm, ticket) == \E p \in pm.positions : p.ticket = ticket
PositionOf(pm, ticket) == CHOOSE p \in pm.positions : p.ticket = ticket

\* force_close: the exit is recorded with position['profit'] and the tracking
\* of the ticket is dropped, when the broker has closed the position
ForceClose(pm, ticket, reason, current_price, close_ok) ==
    IF ~HasPosition(pm, ticket) \/ ~close_ok
    THEN pm
    ELSE LET p == PositionOf(pm, ticket)
             closed == [pm EXCEPT
                           !.positions = @ \ {p},
                           !.partial_exits = {r \in @ : r.ticket # ticket}]
         IN  RecordTradeExit(closed, ticket, ClosePnl(p, current_price), reason)

\* update_stop_loss
UpdateStopLoss(pm, ticket, new_sl, sl_ok) ==
    IF ~HasPosition(pm, ticket) \/ ~sl_ok
    THEN pm
    ELSE LET p == PositionOf(pm, ticket)
         IN  [pm EXCEPT !.positions = (@ \ {p}) \cup {[p EXCEPT !.sl = new_sl]}]

\* round(position['volume'] * (percent / 100.0), 2), lots to milli-lots
CloseVolume(volume, percent) == 10 * RoundHalfEven(volume * percent, 1000)

\* update_trade_partial_close: lot_size of the row becomes remaining_lots
UpdateTradePartialClose(pm, ticket, remaining_lots) ==
    [pm EXCEPT !.dbOpen = {IF r.ticket = ticket
                           THEN [r EXCEPT !.lot_size = remaining_lots] ELSE r : r \in @}]

\* partial_close; close_position closes the whole position when the volume
\* it is given is 0 (close_volume = volume if volume else position['volume'])
PartialClose(pm, ticket, percent, move_sl_to_entry, reason, close_ok, sl_ok) ==
    IF ~HasPosition(pm, ticket) \/ ~close_ok
    THEN pm
    ELSE LET p == PositionOf(pm, ticket)
             close_volume == CloseVolume(p.volume, percent)
             sent_volume == IF close_volume = 0 THEN p.volume ELSE close_volume
             remaining_lots == p.volume - close_volume
             before == {r \in pm.partial_exits : r.ticket = ticket}
             closed_percent == IF before = {} THEN 0
                               ELSE (CHOOSE r \in before : TRUE).closed_percent
             reduced == [pm EXCEPT
                            !.positions =
                                IF sent_volume = p.volume THEN @ \ {p}
                                ELSE (@ \ {p}) \cup
                                     {[p EXCEPT !.volume = p.volume - sent_volume]},
                            !.partial_exits =
                                (@ \ before) \cup
                                {[ticket |-> ticket, closed |-> TRUE,
                                  closed_percent |-> closed_percent + percent,
                                  remaining_lots |-> remaining_lots]},
                            !.partialLog =
                                Append(@, [ticket |-> ticket, reason |-> reason,
                                           volume |-> sent_volume])]
             recorded == UpdateTradePartialClose(reduced, ticket, remaining_lots)
         IN  IF move_sl_to_entry
             THEN UpdateStopLoss(recorded, ticket, BreakevenStop(p), sl_ok)
             ELSE recorded

\* Mutant: a partial close is dispatched whatever evaluate_exits returned.
PartialDispatched_always(exit_eval, partial_exit) == partial_exit.should_partial_exit

\* if exit_eval['should_exit'] / elif exit_eval['action'] == 'adjust_sl' /
\* elif partial_exit['should_partial_exit']
CloseDispatched(exit_eval) == exit_eval.should_exit
AdjustDispatched(exit_eval) == ~exit_eval.should_exit /\ exit_eval.action = "adjust_sl"
PartialDispatched(exit_eval, partial_exit) ==
    /\ ~exit_eval.should_exit
    /\ ~(exit_eval.action = "adjust_sl")
    /\ partial_exit.should_partial_exit

Dispatch(pm, ticket, action, reason, ok) ==
    [pm EXCEPT !.actions = Append(@, [ticket |-> ticket, action |-> action,
                                      reason |-> reason, ok |-> ok])]

\* monitor_positions, the body of the loop for one position of the list
MonitorOne(pm, p, inp) ==
    LET exit_eval == EvaluateExits(p, inp.current_price, inp.candles,
                                   inp.hold_time_minutes)
        partial_closed == PartialClosed(pm.partial_exits, p.ticket)
        partial_exit == CheckPartialExit(p, inp.current_price, partial_closed)
        in_list(q) == HasPosition(q, p.ticket)
        s0 == [pm EXCEPT !.evals = Append(@, [ticket |-> p.ticket,
                                              exit_eval |-> exit_eval,
                                              partial_exit |-> partial_exit])]
        s1 == IF CloseDispatched(exit_eval)
              THEN Dispatch(ForceClose(s0, p.ticket, exit_eval.exit_reason,
                                       inp.current_price, inp.close_ok),
                            p.ticket, "close", exit_eval.exit_reason,
                            in_list(s0) /\ inp.close_ok)
              ELSE s0
        s2 == IF AdjustDispatched(exit_eval)
              THEN Dispatch(UpdateStopLoss(s1, p.ticket, exit_eval.new_sl, inp.sl_ok),
                            p.ticket, "adjust_sl", "none", in_list(s1) /\ inp.sl_ok)
              ELSE s1
        s3 == IF PartialDispatched(exit_eval, partial_exit)
              THEN Dispatch(PartialClose(s2, p.ticket, partial_exit.close_percent,
                                         partial_exit.move_sl_to_entry,
                                         partial_exit.reason, inp.close_ok, inp.sl_ok),
                            p.ticket, "partial_close", partial_exit.reason,
                            in_list(s2) /\ inp.close_ok)
              ELSE s2
    IN  s3

\* monitor_positions over the list the caller read from the broker
RECURSIVE MonitorList(_, _, _)
MonitorList(pm, list, inp) ==
    IF list = {} THEN pm
    ELSE LET p == CHOOSE q \in list : \A o \in list : q.ticket <= o.ticket
         IN  MonitorList(MonitorOne(pm, p, inp), list \ {p}, inp)

NoMonitor ==
    [called |-> FALSE, pre |-> {}, tracked |-> {}, current_price |-> 0,
     candles |-> "few", hold_time_minutes |-> 0, evals |-> <<>>, actions |-> <<>>]

\* A PositionManager that has monitored nothing
IdleManager ==
    /\ partial_exits = {}
    /\ partialLog = <<>>
    /\ lastMonitor = NoMonitor

NoProbe == [fn |-> "none"]

\* No function has been called on its own, no backtest is running, and run
\* has not been called on the engine
IdleRest ==
    /\ probe = NoProbe
    /\ m1_count = 0
    /\ current_time_index = 0
    /\ phase = "none"
    /\ stamps = {}
    /\ running = FALSE
    /\ connected = TRUE
    /\ pool_open = TRUE
    /\ loopExit = "none"
    /\ closed_trades = <<>>

----------------------------------------------------------------------------
(* Driving the breaker directly: check_halts on any history, P&L, equity *)

NoCall ==
    [called |-> FALSE, pre |-> InitialBreaker, daily_pnl |-> 0,
     starting_equity |-> 0,
     ret |-> [halted |-> FALSE, reason |-> "none", duration_minutes |-> 0]]

NoCycle ==
    [ran |-> FALSE, checked |-> FALSE, flag |-> FALSE, ret_halted |-> FALSE,
     has_signal |-> FALSE, confidence |-> 0, atr_adjusted |-> FALSE,
     threshold |-> 0, order_sent |-> FALSE, order_filled |-> FALSE,
     stop_distance |-> 0, tp_distance |-> 0,
     session_active |-> FALSE, monitored |-> FALSE, generated |-> FALSE,
     evaluated |-> {}, recorded |-> {}, open_count |-> 0, raised |-> "none"]

\* The loop before start-up: nothing open, nothing recorded
IdleLoop ==
    /\ mode = "live"
    /\ positions = {}
    /\ deals = {}
    /\ previous_open_positions = {}
    /\ dbOpen = {}
    /\ accountEquity = 0
    /\ startingEquity = 0
    /\ next_ticket = 0
    /\ lastCycle = NoCycle

InitBreaker ==
    /\ cb = InitialBreaker
    /\ now = 0
    /\ tradeHistory \in InitHistories
    /\ newTrades = 0
    /\ events = <<>>
    /\ lastCall = NoCall
    /\ sizer = DefaultSizer
    /\ sizing = NoSizing
    /\ IdleLoop
    /\ IdleManager
    /\ IdleRest

\* check_halts with <<daily_pnl, starting_equity>>: no loss, a 3% loss, a loss
\* with no starting equity
CallCheckHalts ==
    \E in \in {<<0, 1000000>>, <<-30000, 1000000>>, <<-30000, 0>>} :
        LET daily_pnl == in[1]
            starting_equity == in[2]
            r == CheckHalts(cb, GetTradeHistory(history_limit), daily_pnl,
                            starting_equity, now)
        IN  /\ cb' = r.cb
            /\ events' = events \o r.emitted
            /\ lastCall' = [called |-> TRUE, pre |-> cb, daily_pnl |-> daily_pnl,
                            starting_equity |-> starting_equity, ret |-> r.ret]
            /\ UNCHANGED <<now, tradeHistory, newTrades, sizerVars, loopVars,
                           managerVars, restVars>>

\* update_trade_exit: a trade gets its exit fields and becomes the newest row
RecordSampleExit ==
    /\ newTrades < MaxNewTrades
    /\ \E kind \in {"loss_sl", "loss_time", "stop_win", "win_tp", "big_win"} :
           tradeHistory' = <<SampleTrade(kind, TRUE)>> \o tradeHistory
    /\ newTrades' = newTrades + 1
    /\ lastCall' = NoCall
    /\ UNCHANGED <<cb, now, events, sizerVars, loopVars, managerVars, restVars>>

Tick ==
    /\ now < MaxTicks * TickMinutes
    /\ now' = now + TickMinutes
    /\ lastCall' = NoCall
    /\ UNCHANGED <<cb, tradeHistory, newTrades, events, sizerVars, loopVars,
                   managerVars, restVars>>

NextBreaker == CallCheckHalts \/ RecordSampleExit \/ Tick

SpecBreaker == InitBreaker /\ [][NextBreaker]_vars

----------------------------------------------------------------------------
(* Driving the sizer directly: calculate_lot_size on any configuration and
   inputs *)

InitSizer ==
    /\ sizer \in SizerConfigs
    /\ sizing = NoSizing
    /\ cb = InitialBreaker
    /\ now = 0
    /\ tradeHistory = <<>>
    /\ newTrades = 0
    /\ events = <<>>
    /\ lastCall = NoCall
    /\ IdleLoop
    /\ IdleManager
    /\ IdleRest

CallCalculateLotSize ==
    \E e \in {-100, 0} \cup {100 * 10^k : k \in 0..MaxEquityExp},
       r \in {0, 120, 150, 200, 800, 1200},
       d \in {-1, 0} \cup 28..MaxStopPoints :
        /\ sizing' = [called |-> TRUE, equity |-> e, risk_percent |-> r,
                      stop_distance_points |-> d,
                      lots |-> CalculateLotSize(sizer, e, r, d)]
        /\ UNCHANGED <<sizer, breakerVars, loopVars, managerVars, restVars>>

NextSizer == CallCalculateLotSize

SpecSizer == InitSizer /\ [][NextSizer]_vars

----------------------------------------------------------------------------
(* The statements checked of the breaker *)

\* The trade history, daily P&L and starting equity of the last call
CallHistory == tradeHistory
MostRecent(n) == Take(CallHistory, n)

\* The four halt predicates as the design states them
ThreeConsecutiveLosses ==
    /\ Len(CallHistory) >= 3
    /\ \A i \in 1..3 : CallHistory[i].pnl < 0
FiveLossesInSeven ==
    /\ Len(CallHistory) >= 7
    /\ Cardinality({i \in 1..7 : CallHistory[i].pnl < 0}) >= 5
DailyDrawdown ==
    /\ lastCall.starting_equity > 0
    /\ 100 * lastCall.daily_pnl <= -3 * lastCall.starting_equity
StopoutCluster ==
    /\ Len(CallHistory) >= 5
    /\ Cardinality({i \in 1..5 : CallHistory[i].exit_reason = "stop_loss"}) >= 4

NamedPredicateHolds(reason) ==
    CASE reason = "3_consecutive_losses" -> ThreeConsecutiveLosses
      [] reason = "5_losses_in_7_trades" -> FiveLossesInSeven
      [] reason = "daily_drawdown_3pct" -> DailyDrawdown
      [] reason = "4_stopouts_in_5_trades" -> StopoutCluster
      [] OTHER -> FALSE

HaltTransition == lastCall.called /\ ~lastCall.pre.halted /\ cb.halted
ResetTransition == lastCall.called /\ lastCall.pre.halted /\ ~cb.halted
ElapsedAtCall == now - lastCall.pre.halt_start_time
TwoRecentWins ==
    /\ Len(CallHistory) >= 2
    /\ CallHistory[1].pnl > 0
    /\ CallHistory[2].pnl > 0

\* C2: a check_halts call that takes the breaker from Running to Halted was
\* given inputs that satisfy a halt predicate, and halt_reason names one that
\* holds.
C2_HaltHasCause ==
    HaltTransition => NamedPredicateHolds(cb.halt_reason)

C2_Witness ==
    /\ HaltTransition
    /\ cb.halt_reason = "4_stopouts_in_5_trades"
    /\ StopoutCluster

\* C3: on a halted breaker whose duration has elapsed, two most recent winners
\* give Running, halted=false and the default risk and threshold; before the
\* duration has elapsed no call ends the halt.
C3_ResetAfterExpiry ==
    /\ (lastCall.called /\ lastCall.pre.halted
            /\ ElapsedAtCall >= halt_duration_minutes /\ TwoRecentWins)
         => /\ ~cb.halted
            /\ ~lastCall.ret.halted
            /\ cb.adjusted_risk_percent = risk_per_trade
            /\ cb.adjusted_confidence_threshold = min_confidence
    /\ (lastCall.called /\ lastCall.pre.halted
            /\ ElapsedAtCall < halt_duration_minutes)
         => /\ cb.halted
            /\ cb.halt_start_time = lastCall.pre.halt_start_time

C3_Witness ==
    /\ ResetTransition
    /\ TwoRecentWins
    /\ lastCall.pre.adjusted_risk_percent = after_2_losses_risk_percent
    /\ cb.adjusted_risk_percent = risk_per_trade
    /\ cb.adjusted_confidence_threshold = min_confidence

\* R of a trade with the point value per lot of the position sizer:
\* pnl >= 1.5 * stop_distance_points * 100 * lot_size
WinOfOneAndAHalfR(t) ==
    LET stop_distance_points ==
            IF t.direction = "buy" THEN t.entry_price - t.stop_loss
            ELSE t.stop_loss - t.entry_price
    IN  /\ t.pnl > 0
        /\ 20 * t.pnl >= 3 * stop_distance_points * sizer_point_value_per_lot * t.lot_size

\* C4: on halt expiry the breaker resets whenever the most recent trade made
\* at least 1.5 R (R with the sizer's point value per lot), for every history
\* of at least one trade, and a reset needs such a win or two recent winners.
C4_SingleWinReset ==
    /\ (lastCall.called /\ lastCall.pre.halted
            /\ ElapsedAtCall >= halt_duration_minutes
            /\ Len(CallHistory) >= 1 /\ WinOfOneAndAHalfR(CallHistory[1]))
         => ~cb.halted
    /\ ResetTransition
         => (TwoRecentWins \/ WinOfOneAndAHalfR(CallHistory[1]))

LossesInRecentThree ==
    Cardinality({i \in 1..Len(MostRecent(3)) : MostRecent(3)[i].pnl < 0})

NoHaltPredicate ==
    ~(ThreeConsecutiveLosses \/ FiveLossesInSeven \/ DailyDrawdown \/ StopoutCluster)

\* C5: on a Running breaker with no halt predicate satisfied, one loss among
\* the three most recent trades sets the threshold to 70 and leaves the risk,
\* two losses set the risk to 0.3 and the threshold to 75.
C5_GraduatedResponse ==
    (lastCall.called /\ ~lastCall.pre.halted /\ NoHaltPredicate)
      => /\ LossesInRecentThree = 1
              => /\ cb.adjusted_confidence_threshold = 70
                 /\ cb.adjusted_risk_percent = lastCall.pre.adjusted_risk_percent
         /\ LossesInRecentThree = 2
              => /\ cb.adjusted_confidence_threshold = 75
                 /\ cb.adjusted_risk_percent = 300

C5_Witness ==
    /\ lastCall.called
    /\ lastCall.pre = InitialBreaker
    /\ NoHaltPredicate
    /\ Len(CallHistory) >= 3
    /\ LossesInRecentThree = 2
    /\ cb.adjusted_confidence_threshold = 75
    /\ cb.adjusted_risk_percent = 300
    /\ ~cb.halted

EventsOfType(s, type) == Cardinality({i \in 1..Len(s) : s[i].type = type})
NewEvents == SubSeq(events', Len(events) + 1, Len(events'))

C8_AdjustmentRecorded ==
    [][ (/\ lastCall'.called
         /\ ~cb.halted /\ ~cb'.halted
         /\ \/ cb'.adjusted_risk_percent # cb.adjusted_risk_percent
            \/ cb'.adjusted_confidence_threshold # cb.adjusted_confidence_threshold)
        => EventsOfType(NewEvents, "risk_adjustment") >= 1 ]_vars

----------------------------------------------------------------------------
(* The statements checked of the sizer *)

ValidSizing ==
    /\ sizing.called
    /\ sizing.equity > 0
    /\ sizing.risk_percent > 0
    /\ sizing.stop_distance_points > 0

\* lot x stop_distance_points x 100 / equity, as a percentage, is at most 2
RiskWithinTwoPercent ==
    sizing.lots * sizing.stop_distance_points * 100 <= 10 * 2 * sizing.equity

\* C9: for every equity, risk percent and stop distance above 0 and every
\* configured min_lot and max_lot, the returned lot risks at most 2.00% of
\* equity.
C9_RiskAtMostTwoPercent ==
    ValidSizing => RiskWithinTwoPercent

MinOf(a, b) == IF a < b THEN a ELSE b

\* C10: for every input, the invalid ones and the recomputing branch
\* included, min_lot <= lot <= min(max_lot, 0.10).
C10_LotWithinLimits ==
    sizing.called
      => /\ sizer.min_lot_size <= sizing.lots
         /\ sizing.lots <= MinOf(sizer.max_lot_size, 100)

\* a call that the hard cap of 0.10 lots decides, under a max_lot above it
C10_Witness ==
    /\ ValidSizing
    /\ sizer.max_lot_size > 100
    /\ sizing.equity * sizing.risk_percent
           > 100 * 40 * 100 * sizing.stop_distance_points
    /\ sizing.lots = 100

----------------------------------------------------------------------------
(* The loop and its environment *)

NoSignal == [direction |-> "none", confidence |-> 0, price |-> 0, neutral |-> FALSE]

\* generate_signal on the market of the cycle
SignalInputs ==
    {[direction |-> "buy", confidence |-> 80, price |-> 200000, neutral |-> FALSE],
     [direction |-> "sell", confidence |-> 70, price |-> 200000, neutral |-> TRUE]}

SignalChoices(st) ==
    IF st.next_ticket < first_ticket + 1 + MaxOrders
    THEN SignalInputs \cup {NoSignal}
    ELSE {NoSignal}

\* The executor's quote and the fill, in points on the adverse side of the
\* signal price: quote is ask (bid) less the signal's M5 close, slippage is the
\* broker's, or in a backtest random.uniform(0, slippage_tolerance * 0.01)
FillInputs ==
    {[quote |-> 0, slippage |-> 0], [quote |-> 3, slippage |-> 2]}

\* app.trades at start-up
LoopHistories ==
    {<<>>, Old(<<"loss_sl", "loss_time">>), Old(<<"loss_sl", "loss_time", "loss_sl">>)}

\* A position opened before start-up and its row in app.trades
StartPosition ==
    [ticket |-> first_ticket, direction |-> "buy", price_open |-> 200000,
     sl |-> 199967, tp |-> 200040, volume |-> 20]
StartRow == Trade(first_ticket, "buy", 200000, 199967, 20, 0, "open", TRUE)

\* initialize_system, and BacktestRunner.__init__ for a backtest;
\* start_histories are the trade tables found with a position open
StartUp(start_histories) ==
    /\ cb = InitialBreaker
    /\ now = 0
    /\ tradeHistory \in LoopHistories
    /\ newTrades = 0
    /\ events = <<>>
    /\ lastCall = NoCall
    /\ sizer = DefaultSizer
    /\ sizing = NoSizing
    /\ mode \in {"live", "backtest"}
    /\ \/ /\ positions = {}
          /\ dbOpen = {}
       \/ /\ mode = "live"
          /\ tradeHistory \in start_histories
          /\ positions = {StartPosition}
          /\ dbOpen = {StartRow}
    /\ deals = {}
    /\ previous_open_positions = {p.ticket : p \in positions}
    /\ accountEquity = 1000000
    /\ startingEquity = 1000000
    /\ next_ticket = first_ticket + 1
    /\ lastCycle = NoCycle
    /\ IdleManager

Init ==
    /\ StartUp({Old(<<"loss_sl", "loss_time", "loss_sl">>)})
    /\ IdleRest

Commit(st, cyc) ==
    /\ cb' = st.cb
    /\ events' = st.events
    /\ tradeHistory' = st.tradeHistory
    /\ dbOpen' = st.dbOpen
    /\ positions' = st.positions
    /\ deals' = st.deals
    /\ previous_open_positions' = st.previous
    /\ accountEquity' = st.equity
    /\ next_ticket' = st.next_ticket
    /\ lastCall' = NoCall
    /\ sizing' = NoSizing
    /\ lastCycle' = cyc
    /\ UNCHANGED <<now, newTrades, sizer, mode, startingEquity, managerVars,
                   probeVars>>

\* What the cycle computes for an accepted signal: stop distance, risk, lot,
\* stop loss and take profit
Plan(st, signal, session_type) ==
    LET stop_percent == IF signal.neutral THEN 25 ELSE 30
        position_size_multiplier == IF signal.neutral THEN 7 ELSE 10
        stop_distance == CalculateStopDistance(stop_percent)
        risk_percent ==
            (st.cb.adjusted_risk_percent * RiskMultiplier(session_type)
                * position_size_multiplier) \div 2500
        lot_size == CalculateLotSize(sizer, st.equity \div 100, risk_percent, stop_distance)
        stop_loss == IF signal.direction = "buy"
                     THEN signal.price - stop_distance
                     ELSE signal.price + stop_distance
    IN  [lot_size |-> lot_size, stop_loss |-> stop_loss,
         take_profit |-> CalculateTakeProfit(signal.price, stop_loss, signal.direction)]

\* OrderExecutor.place_order: the request is priced at the quote (ask for a
\* buy, bid for a sell), SL and TP are moved to keep their distances from the
\* signal price, the validator checks them, and the broker fills at
\* result.price.  BacktestOrderExecutor.place_order enters at the quote and the
\* random slippage, keeps SL and TP as they are given and has no validator.
PlaceOrder(st, signal, plan, fill) ==
    LET stop_distance == Dist(signal.price, plan.stop_loss)
        tp_distance == Dist(plan.take_profit, signal.price)
        entry_price == IF signal.direction = "buy"
                       THEN signal.price + fill.quote
                       ELSE signal.price - fill.quote
        result_price == IF signal.direction = "buy"
                        THEN entry_price + fill.slippage
                        ELSE entry_price - fill.slippage
        sl == IF mode = "backtest" THEN plan.stop_loss
              ELSE IF signal.direction = "buy" THEN entry_price - stop_distance
              ELSE entry_price + stop_distance
        tp == IF mode = "backtest" THEN plan.take_profit
              ELSE IF signal.direction = "buy" THEN entry_price + tp_distance
              ELSE entry_price - tp_distance
        opened == [st EXCEPT
                      !.positions = @ \cup {[ticket |-> st.next_ticket,
                                             direction |-> signal.direction,
                                             price_open |-> result_price,
                                             sl |-> sl, tp |-> tp,
                                             volume |-> plan.lot_size]},
                      !.next_ticket = @ + 1]
    IN  IF mode = "live"
           /\ ~ValidateOrderParameters(signal.direction, plan.lot_size, sl, tp,
                                       entry_price)
        THEN [success |-> FALSE, st |-> st]
        ELSE [success |-> TRUE,
              st |-> RecordTradeEntry(opened, st.next_ticket, signal.direction,
                                      result_price, plan.lot_size, plan.stop_loss)]

\* run_cycle and simulate_cycle from the signal on
EntryStage(st, cyc, session_type, open_positions) ==
    \E signal \in SignalChoices(st) :
        LET min_conf == st.cb.adjusted_confidence_threshold
            seen == [cyc EXCEPT !.has_signal = TRUE,
                                !.confidence = signal.confidence,
                                !.threshold = min_conf]
        IN  IF signal = NoSignal
            THEN Commit(st, cyc)
            ELSE IF RejectedByThreshold(signal.confidence, min_conf)
            THEN Commit(st, seen)
            ELSE \E account_ok \in BOOLEAN :
                IF ~account_ok
                THEN Commit(st, seen)
                ELSE \E atr \in {<<9, 9>>, <<7, 9>>, <<5, 9>>} :
                    LET atr_validation == ValidateAtr(atr[1], atr[2])
                        adjust == atr_validation.confidence_adjustment < 0
                        confidence == IF adjust
                                      THEN signal.confidence
                                               + atr_validation.confidence_adjustment
                                      ELSE signal.confidence
                        adjusted == [seen EXCEPT !.confidence = confidence,
                                                 !.atr_adjusted = adjust]
                    IN  IF ~atr_validation.valid
                        THEN Commit(st, seen)
                        ELSE IF adjust /\ RejectedAfterAtr(confidence, min_conf)
                        THEN Commit(st, adjusted)
                        ELSE \E spread \in {20, 30} :
                            LET valid == ValidateSignal(spread, atr[1], atr[2],
                                                        st.equity, open_positions,
                                                        session_type)
                                plan == Plan(st, signal, session_type)
                                sent == [adjusted EXCEPT
                                            !.order_sent = TRUE,
                                            !.stop_distance =
                                                Dist(signal.price, plan.stop_loss),
                                            !.tp_distance =
                                                Dist(plan.take_profit, signal.price)]
                            IN  IF mode = "live" /\ ~valid
                                THEN Commit(st, adjusted)
                                ELSE IF mode = "backtest" /\ plan.lot_size <= 0
                                THEN Commit(st, adjusted)
                                ELSE IF mode = "backtest" /\ ~valid
                                THEN Commit(st, adjusted)
                                ELSE \E order_ok \in BOOLEAN :
                                    IF ~order_ok
                                    THEN Commit(st, sent)
                                    ELSE \E fill \in FillInputs :
                                        LET result == PlaceOrder(st, signal, plan, fill)
                                        IN  IF result.success
                                            THEN Commit(result.st,
                                                        [sent EXCEPT !.order_filled = TRUE])
                                            ELSE Commit(st, sent)

\* Mutant: the session is taken to be active at any time.
SessionActive_always(session_type) == TRUE

\* is_trading_window: 'active'
SessionActive(session_type) == session_type # "closed"

\* Whether the broker answers the position query of the concurrency check.
\* Without an open position a failed query and a true one give the same list;
\* the query is let fail while the position found at start-up is the one open.
SnapshotInputs(st) ==
    IF mode = "live" /\ st.positions = {StartPosition} THEN BOOLEAN ELSE {TRUE}

\* get_open_positions(self.symbol), the snapshot taken after monitoring.  The
\* live connector returns [] when positions_get fails; the backtest executor
\* returns its own list.
OpenPositions(st, positions_ok) ==
    IF mode = "live" /\ ~positions_ok THEN {} ELSE st.positions

\* The tickets whose exit a call of _monitor_positions has recorded
ExitsRecorded(before, after) ==
    {r.ticket : r \in before.dbOpen} \ {r.ticket : r \in after.dbOpen}

\* One cycle, from the session check to the order
Cycle ==
    \E session_type \in Sessions :
        IF ~SessionActive(session_type)
        THEN \E mon \in MonitorInputs(St) :
                 LET st1 == MonitorPositions(St, mon)
                 IN  Commit(st1, [NoCycle EXCEPT !.ran = TRUE,
                                                 !.session_active = session_type # "closed",
                                                 !.monitored = TRUE,
                                                 !.recorded = ExitsRecorded(St, st1)])
        ELSE \E md_ok \in BOOLEAN :
            IF ~md_ok
            THEN Commit(St, [NoCycle EXCEPT !.ran = TRUE,
                                            !.session_active = session_type # "closed"])
            ELSE LET trade_history == GetTradeHistory(history_limit)
                     daily_pnl == CalculateDailyPnl(St)
                     r == CheckHalts(cb, trade_history, daily_pnl, startingEquity, now)
                     st1 == [St EXCEPT !.cb = r.cb, !.events = @ \o r.emitted]
                 IN  \E mon \in MonitorInputs(st1) :
                       \E positions_ok \in SnapshotInputs(MonitorPositions(st1, mon)) :
                         LET st2 == MonitorPositions(st1, mon)
                             open_positions == OpenPositions(st2, positions_ok)
                             cyc == [NoCycle EXCEPT
                                        !.ran = TRUE,
                                        !.session_active = session_type # "closed",
                                        !.checked = TRUE,
                                        !.flag = r.cb.halted,
                                        !.ret_halted = r.ret.halted,
                                        !.evaluated =
                                            {trade_history[i].ticket :
                                                i \in 1..Len(trade_history)},
                                        !.monitored = TRUE,
                                        !.recorded = ExitsRecorded(st1, st2)]
                         IN  IF r.ret.halted
                             THEN Commit(st2, cyc)
                             ELSE IF Cardinality(open_positions) >= max_concurrent_positions
                             THEN Commit(st2, [cyc EXCEPT
                                                  !.open_count = Cardinality(open_positions)])
                             ELSE EntryStage(st2,
                                             [cyc EXCEPT
                                                 !.open_count = Cardinality(open_positions),
                                                 !.generated = TRUE],
                                             session_type, open_positions)

\* ExecutionLoop.run_cycle
RunCycle == mode = "live" /\ Cycle /\ UNCHANGED <<runVars, simVars, engineVars>>

\* BacktestRunner.simulate_cycle
SimulateCycle == mode = "backtest" /\ Cycle /\ UNCHANGED <<runVars, simVars, engineVars>>

\* The broker closes a position at its stop loss or take profit
BrokerClose ==
    /\ mode = "live"
    /\ \E p \in positions, hit \in {"sl", "tp"} :
           LET profit == ClosePnl(p, IF hit = "sl" THEN p.sl ELSE p.tp)
           IN  /\ positions' = positions \ {p}
               /\ deals' = deals \cup {[ticket |-> p.ticket, profit |-> profit,
                                        comment |-> hit]}
               /\ accountEquity' = accountEquity + profit
    /\ lastCall' = NoCall
    /\ sizing' = NoSizing
    /\ lastCycle' = NoCycle
    /\ UNCHANGED <<cb, now, tradeHistory, newTrades, events, sizer, mode,
                   previous_open_positions, dbOpen, startingEquity, next_ticket,
                   managerVars, restVars>>

\* Time passes between cycles
Wait ==
    /\ now < MaxWaits * TickMinutes
    /\ now' = now + TickMinutes
    /\ lastCall' = NoCall
    /\ sizing' = NoSizing
    /\ lastCycle' = NoCycle
    /\ UNCHANGED <<cb, tradeHistory, newTrades, events, sizer, mode, positions, deals,
                   previous_open_positions, dbOpen, accountEquity, startingEquity,
                   next_ticket, managerVars, restVars>>

Next == RunCycle \/ SimulateCycle \/ BrokerClose \/ Wait

Spec == Init /\ [][Next]_vars

\* The loop started on an empty trade table, live with one position open
InitSlots ==
    /\ StartUp({<<>>})
    /\ IdleRest
    /\ tradeHistory = <<>>
    /\ mode = "live" => positions = {StartPosition}

SpecSlots == InitSlots /\ [][Next]_vars

----------------------------------------------------------------------------
(* Driving the position manager directly: monitor_positions on the positions
   the broker lists, at any price, with any recent candles *)

\* Positions of 0.20 lots entered at 2000.00 at minute 0, SL 2.00 away
ManagedBuy ==
    [ticket |-> first_ticket, direction |-> "buy", price_open |-> 200000,
     sl |-> 199800, tp |-> 200240, volume |-> 200]
ManagedSell ==
    [ticket |-> first_ticket + 1, direction |-> "sell", price_open |-> 200000,
     sl |-> 200200, tp |-> 199760, volume |-> 200]

RowOf(p) == Trade(p.ticket, p.direction, p.price_open, p.sl, p.volume, 0, "open", TRUE)

InitManager ==
    /\ cb = InitialBreaker
    /\ now = 0
    /\ tradeHistory = <<>>
    /\ newTrades = 0
    /\ events = <<>>
    /\ lastCall = NoCall
    /\ sizer = DefaultSizer
    /\ sizing = NoSizing
    /\ mode = "live"
    /\ positions \in {{ManagedBuy}, {ManagedSell}}
    /\ deals = {}
    /\ previous_open_positions = {}
    /\ dbOpen = {RowOf(p) : p \in positions}
    /\ accountEquity = 1000000
    /\ startingEquity = 1000000
    /\ next_ticket = first_ticket + 2
    /\ lastCycle = NoCycle
    /\ IdleManager
    /\ IdleRest

\* PositionManager.monitor_positions at a current price some points from
\* 2000.00; broker is <<close_position succeeds, update_stop_loss succeeds>>
CallMonitorPositions ==
    /\ positions # {}
    /\ \E current_price \in {200000 + d : d \in {-700, -400, -300, -200, 200, 300, 400, 700}},
          candles \in {"few", "bearish", "bullish"},
          broker \in {<<TRUE, TRUE>>, <<TRUE, FALSE>>, <<FALSE, FALSE>>} :
           LET inp == [current_price |-> current_price, candles |-> candles,
                       hold_time_minutes |-> now, close_ok |-> broker[1],
                       sl_ok |-> broker[2]]
               pm == MonitorList(Pm, positions, inp)
           IN  /\ positions' = pm.positions
               /\ partial_exits' = pm.partial_exits
               /\ partialLog' = pm.partialLog
               /\ tradeHistory' = pm.tradeHistory
               /\ dbOpen' = pm.dbOpen
               /\ lastMonitor' = [called |-> TRUE, pre |-> positions,
                                  tracked |-> partial_exits,
                                  current_price |-> current_price,
                                  candles |-> candles, hold_time_minutes |-> now,
                                  evals |-> pm.evals, actions |-> pm.actions]
    /\ lastCall' = NoCall
    /\ sizing' = NoSizing
    /\ lastCycle' = NoCycle
    /\ UNCHANGED <<cb, now, newTrades, events, sizer, mode, deals,
                   previous_open_positions, accountEquity, startingEquity,
                   next_ticket, restVars>>

\* The stop loss of a position is changed at the broker between two cycles,
\* to a level some points into the profit
ModifyStopLoss ==
    /\ \E p \in positions, d \in {350, 600} :
           LET new_sl == IF p.direction = "buy" THEN p.price_open + d
                         ELSE p.price_open - d
           IN  /\ new_sl # p.sl
               /\ positions' = (positions \ {p}) \cup {[p EXCEPT !.sl = new_sl]}
    /\ lastMonitor' = NoMonitor
    /\ lastCall' = NoCall
    /\ sizing' = NoSizing
    /\ lastCycle' = NoCycle
    /\ UNCHANGED <<cb, now, tradeHistory, newTrades, events, sizer, mode, deals,
                   previous_open_positions, dbOpen, accountEquity, startingEquity,
                   next_ticket, partial_exits, partialLog, restVars>>

NextManager == CallMonitorPositions \/ ModifyStopLoss \/ Wait

SpecManager == InitManager /\ [][NextManager]_vars

----------------------------------------------------------------------------
(* The statements checked of the loop *)

\* C1: in a cycle after whose check_halts call the breaker's halted flag is
\* true, no order is placed.
C1_NoOrderWhileHalted ==
    (lastCycle.ran /\ lastCycle.checked /\ lastCycle.flag)
        => ~lastCycle.order_sent

\* C6: no order is placed for a signal whose confidence, after the ATR
\* adjustment of the cycle, is below the breaker's adjusted confidence
\* threshold of that cycle.
C6_NoOrderBelowThreshold ==
    (lastCycle.ran /\ lastCycle.has_signal
        /\ lastCycle.confidence < lastCycle.threshold)
        => ~lastCycle.order_sent

\* a signal of 80 that the ATR adjustment takes to 70 under a threshold of 75
C6_Witness ==
    /\ lastCycle.ran
    /\ lastCycle.has_signal
    /\ lastCycle.atr_adjusted
    /\ lastCycle.confidence = 70
    /\ lastCycle.threshold = 75
    /\ lastCycle.threshold = cb.adjusted_confidence_threshold
    /\ ~lastCycle.order_sent

\* The position entered by the order of the cycle
EnteredPositions ==
    IF lastCycle.ran /\ lastCycle.order_filled
    THEN {p \in positions : p.ticket = next_ticket - 1}
    ELSE {}

OnLossSide(p) ==
    IF p.direction = "buy" THEN p.sl < p.price_open ELSE p.sl > p.price_open

OnProfitSide(p) ==
    IF p.direction = "buy" THEN p.tp > p.price_open ELSE p.tp < p.price_open

\* C11: for every order that is entered, live or backtest, the position's SL
\* is on the loss side of its entry price, its TP is on the profit side, and
\* |TP - entry| / |entry - SL| is at least risk_reward_ratio.min.
C11_OrderGeometry ==
    \A p \in EnteredPositions :
        /\ OnLossSide(p)
        /\ OnProfitSide(p)
        /\ 10 * Dist(p.tp, p.price_open) >= min_rr * Dist(p.price_open, p.sl)

\* C12: for every order placed, live or backtest, the SL and TP attached to
\* the position keep, from the price at which the position is entered, the
\* stop distance and the take-profit distance computed from the signal price.
C12_DistancesPreserved ==
    \A p \in EnteredPositions :
        /\ Dist(p.price_open, p.sl) = lastCycle.stop_distance
        /\ Dist(p.tp, p.price_open) = lastCycle.tp_distance

----------------------------------------------------------------------------
(* The statements checked of the exit strategy and the position manager *)

\* The position of the monitored list that an evaluation or a dispatch is for
Monitored(ticket) == CHOOSE p \in lastMonitor.pre : p.ticket = ticket

\* The earliest close condition that holds, in the order take profit, time
\* limit, stop loss, momentum reversal
FirstCloseCondition(p) ==
    IF TakeProfitReached(p, lastMonitor.current_price) THEN "take_profit"
    ELSE IF TimeLimitReached(lastMonitor.hold_time_minutes) THEN "time_limit"
    ELSE IF StopLossReached(p, lastMonitor.current_price) THEN "stop_loss"
    ELSE IF MomentumReversed(p, lastMonitor.candles) THEN "momentum_reversal"
    ELSE "none"

\* C13: evaluate_exits returns a close for the earliest condition that holds
\* in the order take profit, time limit, stop loss, momentum reversal, and a
\* break-even SL adjustment only when none of the four holds.
C13_FirstMatchingExit ==
    \A i \in 1..Len(lastMonitor.evals) :
        LET e == lastMonitor.evals[i].exit_eval
            first == FirstCloseCondition(Monitored(lastMonitor.evals[i].ticket))
        IN  /\ first # "none" =>
                (e.should_exit /\ e.action = "close" /\ e.exit_reason = first)
            /\ first = "none" => ~e.should_exit
            /\ e.action = "adjust_sl" => first = "none"

\* the time limit and the stop loss hold at once and time_limit is returned
C13_Witness ==
    \E i \in 1..Len(lastMonitor.evals) :
        LET p == Monitored(lastMonitor.evals[i].ticket)
        IN  /\ ~TakeProfitReached(p, lastMonitor.current_price)
            /\ TimeLimitReached(lastMonitor.hold_time_minutes)
            /\ StopLossReached(p, lastMonitor.current_price)
            /\ MomentumReversed(p, lastMonitor.candles)
            /\ lastMonitor.evals[i].exit_eval.exit_reason = "time_limit"

\* The buy position entered at 2000.00 with SL 1998.00, as the first and as
\* the second monitoring cycle of C14 find it
AfterFirstTier == [ManagedBuy EXCEPT !.volume = 100, !.sl = 200002]

FirstTierCycle ==
    /\ lastMonitor.called
    /\ lastMonitor.pre = {ManagedBuy}
    /\ lastMonitor.tracked = {}
    /\ lastMonitor.current_price = 200400

SecondTierCycle ==
    /\ lastMonitor.called
    /\ lastMonitor.pre = {AfterFirstTier}
    /\ PartialClosed(lastMonitor.tracked, ManagedBuy.ticket)
    /\ lastMonitor.current_price = 200700

OnlyAction(reason) ==
    /\ Len(lastMonitor.actions) = 1
    /\ lastMonitor.actions[1].action = "partial_close"
    /\ lastMonitor.actions[1].reason = reason

\* C14: for a buy position entered at 2000.00 with SL 1998.00, a monitoring
\* cycle at 2004.00 executes partial_exit_1 (50% closed, SL moved to 2000.02)
\* and leaves the position open; a later cycle at 2007.00 executes
\* partial_exit_2 (30% of the remaining volume closed).
C14_PartialExitExample ==
    /\ FirstTierCycle =>
           /\ OnlyAction("partial_exit_1")
           /\ lastMonitor.actions[1].ok =>
                  \E p \in positions :
                      /\ p.ticket = ManagedBuy.ticket
                      /\ p.volume = 100
                      /\ p.sl \in {ManagedBuy.sl, 200002}
    /\ SecondTierCycle =>
           /\ OnlyAction("partial_exit_2")
           /\ lastMonitor.actions[1].ok =>
                  \E p \in positions :
                      p.ticket = ManagedBuy.ticket /\ p.volume = 70

\* C15: for every ticket, partial_exit_2 is never executed before
\* partial_exit_1 has been executed successfully for that ticket.
C15_SecondTierAfterFirst ==
    \A i \in 1..Len(partialLog) :
        partialLog[i].reason = "partial_exit_2" =>
            \E j \in 1..(i - 1) :
                /\ partialLog[j].ticket = partialLog[i].ticket
                /\ partialLog[j].reason = "partial_exit_1"

\* the second tier has been executed
C15_Witness ==
    \E i \in 1..Len(partialLog) : partialLog[i].reason = "partial_exit_2"

\* C16: for every ticket, each partial-exit tier is executed at most once
\* over the life of the position.
C16_EachTierOnce ==
    \A i, j \in 1..Len(partialLog) :
        (i < j /\ partialLog[i].ticket = partialLog[j].ticket)
            => partialLog[i].reason # partialLog[j].reason

\* The dispatches of the last cycle for a ticket
ActionsFor(ticket) ==
    {i \in 1..Len(lastMonitor.actions) : lastMonitor.actions[i].ticket = ticket}

\* C17: in one monitoring cycle at most one action is dispatched for each
\* position, chosen in the order full close, SL adjustment, partial close; a
\* position with a full close gets no SL adjustment or partial close.
C17_OneActionPerPosition ==
    \A k \in 1..Len(lastMonitor.evals) :
        LET ev == lastMonitor.evals[k]
            mine == ActionsFor(ev.ticket)
            chosen == IF ev.exit_eval.should_exit THEN "close"
                      ELSE IF ev.exit_eval.action = "adjust_sl" THEN "adjust_sl"
                      ELSE IF ev.partial_exit.should_partial_exit THEN "partial_close"
                      ELSE "none"
        IN  /\ Cardinality(mine) <= 1
            /\ \A i \in mine : lastMonitor.actions[i].action = chosen
            /\ chosen # "none" => mine # {}

\* a full close is dispatched for a position whose first partial exit is due
C17_Witness ==
    \E k \in 1..Len(lastMonitor.evals) :
        LET ev == lastMonitor.evals[k]
        IN  /\ ev.exit_eval.should_exit
            /\ ev.partial_exit.should_partial_exit
            /\ \E i \in ActionsFor(ev.ticket) : lastMonitor.actions[i].action = "close"

----------------------------------------------------------------------------
(* The statements checked of the order of a cycle *)

\* C18: in every cycle of an active session position monitoring runs before
\* the circuit-breaker check, so an exit recorded by the cycle's monitoring is
\* part of the trade history the breaker evaluates in the same cycle.
C18_MonitoringBeforeBreaker ==
    (lastCycle.ran /\ lastCycle.session_active /\ lastCycle.checked)
        => lastCycle.recorded \subseteq lastCycle.evaluated

\* C19: in every cycle in which the session is reported inactive the loop
\* monitors the existing positions and returns without generating a signal
\* or placing an order.
C19_InactiveSessionOnlyMonitors ==
    (lastCycle.ran /\ ~lastCycle.session_active)
        => /\ lastCycle.monitored
           /\ ~lastCycle.generated
           /\ ~lastCycle.order_sent

\* an inactive cycle whose monitoring has recorded the exit of a position
C19_Witness ==
    /\ lastCycle.ran
    /\ ~lastCycle.session_active
    /\ lastCycle.monitored
    /\ lastCycle.recorded # {}
    /\ positions = {}

\* C20: when only the engine opens positions, the number of open positions
\* never exceeds max_concurrent_positions, and an order is placed only in a
\* cycle whose snapshot after monitoring holds fewer than that many positions.
\* The first half fails when the broker's position query fails.
C20_AtMostMaxPositions ==
    /\ Cardinality(positions) <= max_concurrent_positions
    /\ (lastCycle.ran /\ lastCycle.order_sent)
           => /\ lastCycle.monitored
              /\ lastCycle.open_count < max_concurrent_positions

-----------------------------------------------------------------------------
(* The statements checked of the detection of broker closes *)

\* The tickets the broker has closed on its own whose row is still open
ClosedUnrecorded ==
    {d.ticket : d \in {e \in deals : e.comment \in {"sl", "tp"}}}
        \cap {r.ticket : r \in dbOpen}

\* C21: every position of the engine that the broker has closed on its own
\* and whose exit is not yet recorded is in the previous-tickets set, so that
\* the next monitoring step detects it and records its exit, whatever the
\* interleaving of the broker's close with the cycles.
C21_BrokerCloseDetected ==
    mode = "live" => ClosedUnrecorded \subseteq previous_open_positions

-----------------------------------------------------------------------------
(* The backtest simulator on a candle given by its low and high, and the other
   functions driven on their own: probe holds the inputs and the result of the
   last call *)

\* update_positions: the stop loss test of one position
SlHit(p, low, high) ==
    IF p.direction = "buy" THEN low <= p.sl ELSE high >= p.sl

\* update_positions: the take profit test of one position
TpHit(p, low, high) ==
    IF p.direction = "buy" THEN high >= p.tp ELSE low <= p.tp

\* Mutant: the take profit entry is appended before the stop loss entry.
PositionsToClose_tp_first(p, low, high) ==
    (IF TpHit(p, low, high)
     THEN <<[ticket |-> p.ticket, exit_price |-> p.tp, exit_reason |-> "take_profit"]>>
     ELSE <<>>)
    \o (IF SlHit(p, low, high)
        THEN <<[ticket |-> p.ticket, exit_price |-> p.sl, exit_reason |-> "stop_loss"]>>
        ELSE <<>>)

\* update_positions: what one position appends to positions_to_close
PositionsToClose(p, low, high) ==
    (IF SlHit(p, low, high)
     THEN <<[ticket |-> p.ticket, exit_price |-> p.sl, exit_reason |-> "stop_loss"]>>
     ELSE <<>>)
    \o (IF TpHit(p, low, high)
        THEN <<[ticket |-> p.ticket, exit_price |-> p.tp, exit_reason |-> "take_profit"]>>
        ELSE <<>>)

\* update_positions: positions_to_close over the open positions, by ticket
RECURSIVE AllToClose(_, _, _)
AllToClose(open, low, high) ==
    IF open = {} THEN <<>>
    ELSE LET p == CHOOSE q \in open : \A o \in open : q.ticket <= o.ticket
         IN  PositionsToClose(p, low, high) \o AllToClose(open \ {p}, low, high)

\* Mutant: the closed position stays in the open positions.
SimClosePosition_keeps_open(sim, ticket, exit_price, exit_reason) ==
    IF ~\E p \in sim.positions : p.ticket = ticket
    THEN sim
    ELSE LET p == CHOOSE q \in sim.positions : q.ticket = ticket
             pnl == ClosePnl(p, exit_price)
         IN  [positions |-> sim.positions,
              closed |-> Append(sim.closed,
                                [ticket |-> ticket, exit_price |-> exit_price,
                                 exit_reason |-> exit_reason, pnl |-> pnl]),
              equity |-> sim.equity + pnl]

\* BacktestOrderExecutor.close_position with the exit price given: None for a
\* ticket that is no longer open
SimClosePosition(sim, ticket, exit_price, exit_reason) ==
    IF ~\E p \in sim.positions : p.ticket = ticket
    THEN sim
    ELSE LET p == CHOOSE q \in sim.positions : q.ticket = ticket
             pnl == ClosePnl(p, exit_price)
         IN  [positions |-> sim.positions \ {p},
              closed |-> Append(sim.closed,
                                [ticket |-> ticket, exit_price |-> exit_price,
                                 exit_reason |-> exit_reason, pnl |-> pnl]),
              equity |-> sim.equity + pnl]

\* update_positions: the loop over positions_to_close
RECURSIVE CloseListed(_, _)
CloseListed(sim, todo) ==
    IF todo = <<>> THEN sim
    ELSE CloseListed(SimClosePosition(sim, Head(todo).ticket, Head(todo).exit_price,
                                      Head(todo).exit_reason),
                     Tail(todo))

\* BacktestOrderExecutor.update_positions on the current candle
UpdatePositions(open, sim_equity, low, high) ==
    CloseListed([positions |-> open, closed |-> <<>>, equity |-> sim_equity],
                AllToClose(open, low, high))

\* The simulator's position: a buy or a sell entered at 2000.00
SimPositions ==
    {StartPosition,
     [ticket |-> first_ticket, direction |-> "sell", price_open |-> 200000,
      sl |-> 200033, tp |-> 199960, volume |-> 20]}

\* Lows and highs of the current candle
CandleLevels ==
    {199950, 199960, 199967, 199980, 200000, 200020, 200033, 200040, 200050}

CallUpdatePositions ==
    /\ probe = NoProbe
    /\ \E p \in SimPositions, low \in CandleLevels, high \in CandleLevels :
        /\ low <= high
        /\ probe' = [fn |-> "update_positions", position |-> p,
                     low |-> low, high |-> high,
                     result |-> UpdatePositions({p}, 1000000, low, high)]
        /\ UNCHANGED <<breakerVars, sizerVars, loopVars, managerVars, runVars, simVars,
                       engineVars>>

\* Mutant: the equity check comes before the spread and the ATR checks.
ValidateSignalReason_equity_first(spread, atr_value, atr_average, acct_equity, open_positions, session_type) ==
    IF acct_equity <= 0 THEN "Invalid equity"
    ELSE IF ~CheckSpread(spread, session_type) THEN "Spread exceeds limit"
    ELSE IF atr_average > 0 /\ 2 * atr_value > 5 * atr_average
    THEN "Extreme ATR spike"
    ELSE IF Cardinality(open_positions) >= max_concurrent_positions
    THEN "Maximum positions already open"
    ELSE "All validation checks passed"

\* validate_signal: 'reason' of the result, by the check that returns
ValidateSignalReason(spread, atr_value, atr_average, acct_equity, open_positions, session_type) ==
    IF ~CheckSpread(spread, session_type) THEN "Spread exceeds limit"
    ELSE IF atr_average > 0 /\ 2 * atr_value > 5 * atr_average
    THEN "Extreme ATR spike"
    ELSE IF acct_equity <= 0 THEN "Invalid equity"
    ELSE IF Cardinality(open_positions) >= max_concurrent_positions
    THEN "Maximum positions already open"
    ELSE "All validation checks passed"

\* validate_order_parameters: 'reason' of the result, by the check that returns
ValidateOrderReason(direction, lot_size, stop_loss, take_profit, entry_price) ==
    IF lot_size < validator_min_lot THEN "Lot size below minimum"
    ELSE IF lot_size > validator_max_lot THEN "Lot size above maximum"
    ELSE IF direction = "buy" /\ stop_loss >= entry_price
    THEN "Stop loss must be below entry for buy"
    ELSE IF direction # "buy" /\ stop_loss <= entry_price
    THEN "Stop loss must be above entry for sell"
    ELSE IF direction = "buy" /\ take_profit <= entry_price
    THEN "Take profit must be above entry for buy"
    ELSE IF direction # "buy" /\ take_profit >= entry_price
    THEN "Take profit must be below entry for sell"
    ELSE IF Dist(entry_price, stop_loss) = 0 THEN "Stop loss distance is zero"
    ELSE IF 10 * Dist(take_profit, entry_price) < min_rr * Dist(entry_price, stop_loss)
    THEN "Risk-reward ratio below minimum"
    ELSE "All order parameters valid"

\* Spreads, ATR pairs, equities (cents) and position lists given to validate_signal

CallValidateSignal ==
    /\ probe = NoProbe
    /\ \E spread \in {20, 30, 40}, atr \in {<<9, 9>>, <<30, 9>>, <<30, 0>>}, e \in {-100, 0, 1000000},
       open \in {{}, {StartPosition}}, session_type \in {"prime", "acceptable"} :
        /\ probe' = [fn |-> "validate_signal", spread |-> spread,
                     atr |-> atr[1], atr_average |-> atr[2], acct_equity |-> e,
                     open_positions |-> open, session_type |-> session_type,
                     valid |-> ValidateSignal(spread, atr[1], atr[2], e, open,
                                             session_type),
                     reason |-> ValidateSignalReason(spread, atr[1], atr[2], e, open,
                                                     session_type)]
        /\ UNCHANGED <<breakerVars, sizerVars, loopVars, managerVars, runVars, simVars,
                       engineVars>>

\* run_cycle and simulate_cycle from validate_signal to place_order, for a
\* candidate trade whose stop distance is given; percent is the risk percent
\* after the session's and the trend's multipliers
EntryAttempt(signal, session_type, acct_equity, percent, stop_distance, spread, atr, fill) ==
    LET st == [St EXCEPT !.equity = acct_equity]
        valid == ValidateSignal(spread, atr[1], atr[2], acct_equity, st.positions,
                                session_type)
        lot_size == CalculateLotSize(sizer, acct_equity \div 100, percent,
                                     stop_distance)
        stop_loss == IF signal.direction = "buy"
                     THEN signal.price - stop_distance
                     ELSE signal.price + stop_distance
        take_profit == CalculateTakeProfit(signal.price, stop_loss, signal.direction)
        plan == [lot_size |-> lot_size, stop_loss |-> stop_loss,
                 take_profit |-> take_profit]
        entry_price == IF signal.direction = "buy"
                       THEN signal.price + fill.quote
                       ELSE signal.price - fill.quote
        sl == IF signal.direction = "buy" THEN entry_price - stop_distance
              ELSE entry_price + stop_distance
        tp == IF signal.direction = "buy"
              THEN entry_price + Dist(take_profit, signal.price)
              ELSE entry_price - Dist(take_profit, signal.price)
        result == PlaceOrder(st, signal, plan, fill)
        rejected(reason) == [placed |-> FALSE, reason |-> reason,
                             lot_size |-> lot_size, positions |-> {}]
    IN  IF mode = "backtest" /\ lot_size <= 0 THEN rejected("Invalid lot size")
        ELSE IF ~valid
        THEN rejected(ValidateSignalReason(spread, atr[1], atr[2], acct_equity,
                                            st.positions, session_type))
        ELSE IF ~result.success
        THEN rejected(ValidateOrderReason(signal.direction, lot_size, sl, tp,
                                          entry_price))
        ELSE [placed |-> TRUE, reason |-> "none", lot_size |-> lot_size,
              positions |-> result.st.positions]

\* Stop distances of the candidate trade, points

CallEntryAttempt ==
    /\ probe = NoProbe
    /\ \E signal \in SignalInputs, session_type \in {"prime", "acceptable"},
       e \in {0, 1000000}, d \in {0, 28, 33}, fill \in FillInputs :
        /\ probe' = [fn |-> "entry", signal |-> signal, session_type |-> session_type,
                     acct_equity |-> e, stop_distance |-> d, fill |-> fill,
                     result |-> EntryAttempt(signal, session_type, e, 200, d, 20,
                                             <<9, 9>>, fill)]
        /\ UNCHANGED <<breakerVars, sizerVars, loopVars, managerVars, runVars, simVars,
                       engineVars>>

\* The ATR and its average as calculate_atr and calculate_atr_average give
\* them from the M5 candles: price units, written in hundredths of a dollar.
\* What the fetch puts in indicators['atr'] and ['atr_average'] is a number
\* for the volatility filter, written here in hundredths.

\* ExecutionLoop.fetch_market_data: atr_values[-1] and the average as they are
LiveAtr(atr_price, atr_average_price) == <<atr_price, atr_average_price>>

\* BacktestRunner._fetch_market_data: each ATR divided by 0.01
BacktestAtr(atr_price, atr_average_price) ==
    <<100 * atr_price, 100 * atr_average_price>>

\* validate_atr on numbers written in hundredths
ValidateAtrHundredths(atr_value, atr_average) ==
    IF atr_value < 600
    THEN [valid |-> FALSE, confidence_adjustment |-> 0]
    ELSE IF atr_value > 1200
    THEN [valid |-> FALSE, confidence_adjustment |-> 0]
    ELSE IF atr_average > 0 /\ 10 * atr_value > 18 * atr_average
    THEN [valid |-> FALSE, confidence_adjustment |-> 0]
    ELSE IF 800 <= atr_value /\ atr_value <= 1100
    THEN [valid |-> TRUE, confidence_adjustment |-> 0]
    ELSE [valid |-> TRUE, confidence_adjustment |-> -10]

\* M5 ATR and average, hundredths of a dollar: 0.05 to 15.00

CallFetchAtr ==
    /\ probe = NoProbe
    /\ \E a \in {0, 5, 9, 10, 600, 900, 1500}, avg \in {0, 9, 900} :
        LET live == LiveAtr(a, avg)
            backtest == BacktestAtr(a, avg)
        IN  /\ probe' = [fn |-> "fetch_atr", atr_price |-> a,
                         atr_average_price |-> avg,
                         live |-> live, backtest |-> backtest,
                         live_valid |-> ValidateAtrHundredths(live[1], live[2]).valid,
                         backtest_valid |->
                             ValidateAtrHundredths(backtest[1], backtest[2]).valid]
            /\ UNCHANGED <<breakerVars, sizerVars, loopVars, managerVars, runVars, simVars,
                           engineVars>>

\* random.uniform(0, slippage_tolerance * 0.01) with slippage_tolerance 2, points

\* One trade of a backtest run: the order placed on the signal with the given
\* draw of the slippage, and the candle that follows
ReplayTrade(signal, quote, slippage, low, high) ==
    LET placed == PlaceOrder(St, signal, Plan(St, signal, "prime"),
                             [quote |-> quote, slippage |-> slippage])
        after == UpdatePositions(placed.st.positions, placed.st.equity, low, high)
    IN  [entries |-> {[ticket |-> p.ticket, entry_price |-> p.price_open] :
                         p \in placed.st.positions},
         closed |-> after.closed]

\* Two runs of the backtest on the same candles: the signal, the quote and the
\* following candle are the same, each run draws its own slippage
CallReplayTwice ==
    /\ probe = NoProbe
    /\ mode = "backtest"
    /\ \E signal \in SignalInputs, quote \in {0, 3},
          low \in {199950, 200000}, high \in {200020, 200050},
          draw_a \in (0..2), draw_b \in (0..2) :
           probe' = [fn |-> "replay", signal |-> signal, quote |-> quote,
                     low |-> low, high |-> high,
                     run_a |-> ReplayTrade(signal, quote, draw_a, low, high),
                     run_b |-> ReplayTrade(signal, quote, draw_b, low, high)]
    /\ UNCHANGED <<breakerVars, sizerVars, loopVars, managerVars, runVars, simVars,
                   engineVars>>

\* What the live monitoring dispatches for a position: ExecutionLoop.
\* _monitor_positions hands the position, the tick and the last M1 candles to
\* PositionManager.monitor_positions
LiveExitDecision(p, current_price, candles, hold_time_minutes) ==
    LET exit_eval == EvaluateExits(p, current_price, candles, hold_time_minutes)
        partial_exit == CheckPartialExit(p, current_price, FALSE)
    IN  IF CloseDispatched(exit_eval)
        THEN [action |-> "close", reason |-> exit_eval.exit_reason]
        ELSE IF AdjustDispatched(exit_eval)
        THEN [action |-> "adjust_sl", reason |-> "none"]
        ELSE IF PartialDispatched(exit_eval, partial_exit)
        THEN [action |-> "partial_close", reason |-> partial_exit.reason]
        ELSE [action |-> "hold", reason |-> "none"]

\* What BacktestRunner._monitor_positions does with the position: only
\* update_positions on the current candle
BacktestExitDecision(p, low, high) ==
    LET result == UpdatePositions({p}, 1000000, low, high)
    IN  IF result.closed # <<>>
        THEN [action |-> "close", reason |-> result.closed[1].exit_reason]
        ELSE [action |-> "hold", reason |-> "none"]

\* Minutes the position has been held, and the run of the last three M1 candles

\* The same open position and the same market snapshot given to the live
\* monitoring and to the backtest monitoring; the tick is the candle's close
CallMonitorBoth ==
    /\ probe = NoProbe
    /\ \E p \in SimPositions, low \in CandleLevels, high \in CandleLevels,
       close \in CandleLevels, candles \in {"mixed", "bearish", "bullish"}, hold \in {5, 15} :
        /\ low <= close
        /\ close <= high
        /\ probe' = [fn |-> "monitor_both", position |-> p, low |-> low,
                     high |-> high, current_price |-> close, candles |-> candles,
                     hold_time_minutes |-> hold,
                     live |-> LiveExitDecision(p, close, candles, hold),
                     backtest |-> BacktestExitDecision(p, low, high)]
        /\ UNCHANGED <<breakerVars, sizerVars, loopVars, managerVars, runVars, simVars,
                       engineVars>>

\* The engine's components before any call, live or in a backtest
InitCalls ==
    /\ cb = InitialBreaker
    /\ now = 0
    /\ tradeHistory = <<>>
    /\ newTrades = 0
    /\ events = <<>>
    /\ lastCall = NoCall
    /\ sizer = DefaultSizer
    /\ sizing = NoSizing
    /\ mode \in {"live", "backtest"}
    /\ positions = {}
    /\ deals = {}
    /\ previous_open_positions = {}
    /\ dbOpen = {}
    /\ accountEquity = 1000000
    /\ startingEquity = 1000000
    /\ next_ticket = first_ticket + 1
    /\ lastCycle = NoCycle
    /\ IdleManager
    /\ IdleRest

NextCalls ==
    \/ CallUpdatePositions
    \/ CallValidateSignal
    \/ CallEntryAttempt
    \/ CallFetchAtr
    \/ CallReplayTwice
    \/ CallMonitorBoth

SpecCalls == InitCalls /\ [][NextCalls]_vars

\* C22: in the backtest simulator, when the candle's low/high range reaches
\* both the SL and the TP of the open position, update_positions closes the
\* position exactly once, at the SL price with reason stop_loss, and never
\* with reason take_profit.
C22_StopLossBeforeTakeProfit ==
    (/\ probe.fn = "update_positions"
     /\ SlHit(probe.position, probe.low, probe.high)
     /\ TpHit(probe.position, probe.low, probe.high))
    => /\ probe.result.positions = {}
       /\ Len(probe.result.closed) = 1
       /\ probe.result.closed[1].ticket = probe.position.ticket
       /\ probe.result.closed[1].exit_price = probe.position.sl
       /\ probe.result.closed[1].exit_reason = "stop_loss"
       /\ \A i \in DOMAIN probe.result.closed :
              probe.result.closed[i].exit_reason # "take_profit"

C22_Witness ==
    /\ probe.fn = "update_positions"
    /\ probe.position.direction = "sell"
    /\ SlHit(probe.position, probe.low, probe.high)
    /\ TpHit(probe.position, probe.low, probe.high)
    /\ Len(probe.result.closed) = 1
    /\ probe.result.closed[1].exit_reason = "stop_loss"

\* C24: two runs of the backtest with the same configuration, the same initial
\* equity and the same candle data produce the same trades, with equal entry
\* prices, exit prices, exit reasons and P&L.
C24_ReplayDeterministic ==
    probe.fn = "replay" => probe.run_a = probe.run_b

\* C25: for the same open position and the same market snapshot a backtest
\* cycle takes the same exit decision as a live monitoring cycle: time-limit
\* closes, momentum-reversal closes, break-even SL adjustments and partial
\* exits occur in backtest exactly when they occur live.
C25_SameExitDecision ==
    probe.fn = "monitor_both" => probe.live = probe.backtest

\* C27: for the same M5 candles the live fetch and the backtest fetch give the
\* volatility filter the same ATR and ATR average, and a signal passes the ATR
\* validation in live mode exactly when it passes in backtest mode.
C27_SameAtrLiveAndBacktest ==
    probe.fn = "fetch_atr"
    => /\ probe.live = probe.backtest
       /\ probe.live_valid = probe.backtest_valid

\* C28: validate_signal returns invalid with the reason of the first failing
\* check in the order spread, ATR above 2.5 times its average, equity <= 0
\* ('Invalid equity'), open positions >= max_concurrent_positions; it returns
\* valid only when all four pass, and with equity 0 no order is placed.
C28_SequentialChecks ==
    /\ probe.fn = "validate_signal"
       => LET spread_fails == ~CheckSpread(probe.spread, probe.session_type)
              atr_fails == /\ probe.atr_average > 0
                           /\ 2 * probe.atr > 5 * probe.atr_average
              equity_fails == probe.acct_equity <= 0
              positions_fail == Cardinality(probe.open_positions)
                                    >= max_concurrent_positions
          IN  /\ probe.valid
                  <=> ~(spread_fails \/ atr_fails \/ equity_fails \/ positions_fail)
              /\ probe.valid <=> probe.reason = "All validation checks passed"
              /\ spread_fails => probe.reason = "Spread exceeds limit"
              /\ ~spread_fails /\ atr_fails => probe.reason = "Extreme ATR spike"
              /\ ~spread_fails /\ ~atr_fails /\ equity_fails
                     => probe.reason = "Invalid equity"
              /\ ~spread_fails /\ ~atr_fails /\ ~equity_fails /\ positions_fail
                     => probe.reason = "Maximum positions already open"
    /\ probe.fn = "entry" /\ probe.acct_equity = 0
       => /\ ~probe.result.placed
          /\ probe.result.reason = "Invalid equity"
          /\ probe.result.positions = {}

C28_Witness ==
    /\ probe.fn = "validate_signal"
    /\ probe.acct_equity = 0
    /\ ~CheckSpread(probe.spread, probe.session_type)
    /\ Cardinality(probe.open_positions) >= max_concurrent_positions
    /\ ~probe.valid
    /\ probe.reason = "Spread exceeds limit"

\* C29: when the stop distance of a candidate trade is 0, no order is placed in
\* live mode or in backtest mode, the rejection carries the reason that the
\* stop distance is zero, and the sizer gives no sized order.
C29_ZeroStopRejected ==
    (/\ probe.fn = "entry"
     /\ probe.stop_distance = 0
     /\ probe.acct_equity > 0)
    => /\ ~probe.result.placed
       /\ probe.result.reason = "Stop loss distance is zero"
       /\ probe.result.lot_size <= 0

----------------------------------------------------------------------------
(* BacktestRunner.run_backtest.  The simulation time of candle i is i minutes
   after the first candle.  The candles are historical, so the wall clock of
   the run reads the end of the data or later. *)

MaxCandles == 3        \* M1 candles of the longest backtest
MaxSimOrders == 2      \* orders placed on one simulator

\* The time of m1_candles[index], minutes after the first candle
SimulationTime(index) == index

\* Mutant: the index stays where it is and the call reports an advance.
AdvanceTime_stuck(index, count) ==
    [advanced |-> TRUE, index |-> index]

\* BacktestMT5Connector.advance_time
AdvanceTime(index, count) ==
    IF index < count - 1
    THEN [advanced |-> TRUE, index |-> index + 1]
    ELSE [advanced |-> FALSE, index |-> index]

\* run_backtest up to initialize_historical_data, with the rows earlier runs
\* left in backtest_results.db
InitRun ==
    /\ cb = InitialBreaker
    /\ m1_count \in 0..MaxCandles
    /\ now = SimulationTime(MaxCandles)
    /\ tradeHistory \in LoopHistories
    /\ newTrades = 0
    /\ events = <<>>
    /\ lastCall = NoCall
    /\ sizer = DefaultSizer
    /\ sizing = NoSizing
    /\ mode = "backtest"
    /\ positions = {}
    /\ deals = {}
    /\ previous_open_positions = {}
    /\ dbOpen = {}
    /\ accountEquity = 1000000
    /\ startingEquity = 1000000
    /\ next_ticket = first_ticket + 1
    /\ lastCycle = NoCycle
    /\ IdleManager
    /\ probe = NoProbe
    /\ running = FALSE
    /\ connected = TRUE
    /\ pool_open = TRUE
    /\ loopExit = "none"
    /\ current_time_index = 0
    /\ phase = "loop"
    /\ stamps = {}
    /\ closed_trades = <<>>

\* A time written during the run, with the candle the simulation was at
Stamp(what, ticket, time, pnl) ==
    [what |-> what, ticket |-> ticket, time |-> time,
     candle |-> current_time_index, pnl |-> pnl]

\* The times a cycle writes: halt_start_time in _trigger_halt, entry_time in
\* record_trade_entry, exit_time in record_trade_exit
CycleStamps(cb_before, cb_after, open_before, open_after) ==
    (IF ~cb_before.halted /\ cb_after.halted
     THEN {Stamp("halt_start", 0, cb_after.halt_start_time, 0)}
     ELSE {})
    \cup {Stamp("entry", r.ticket, now, 0) :
             r \in {x \in open_after : \A y \in open_before : y.ticket # x.ticket}}
    \cup {Stamp("exit", r.ticket, now, 0) :
             r \in {x \in open_before : \A y \in open_after : y.ticket # x.ticket}}

\* The loop body when fewer than 30 seconds separate the candle from the
\* last cycle's
SkipCycle ==
    /\ lastCall' = NoCall
    /\ sizing' = NoSizing
    /\ lastCycle' = NoCycle
    /\ UNCHANGED <<cb, now, tradeHistory, newTrades, events, sizer, mode, positions,
                   deals, previous_open_positions, dbOpen, accountEquity,
                   startingEquity, next_ticket, managerVars, probeVars>>

\* run_backtest returns an error when no candle was fetched
NoData ==
    /\ phase = "loop"
    /\ m1_count = 0
    /\ phase' = "done"
    /\ SkipCycle
    /\ UNCHANGED <<m1_count, current_time_index, stamps, engineVars, simVars>>

\* One iteration of the loop of run_backtest: the cycle when it is due, then
\* advance_time
Iterate ==
    /\ phase = "loop"
    /\ m1_count > 0
    /\ \E due \in (IF current_time_index = 0 THEN {TRUE} ELSE BOOLEAN) :
           IF due
           THEN /\ Cycle
                /\ stamps' = stamps \cup CycleStamps(cb, cb', dbOpen, dbOpen')
           ELSE /\ SkipCycle
                /\ stamps' = stamps
    /\ LET step == AdvanceTime(current_time_index, m1_count)
       IN  /\ current_time_index' = step.index
           /\ phase' = IF step.advanced THEN "loop" ELSE "closing"
    /\ UNCHANGED <<m1_count, engineVars, simVars>>

\* _close_all_positions: every open position closed at the bid (buy) or the
\* ask (sell) of the current candle, its exit recorded
RECURSIVE CloseAllPositions(_, _, _)
CloseAllPositions(st, bid, ask) ==
    IF st.positions = {} THEN st
    ELSE LET p == CHOOSE q \in st.positions :
                      \A o \in st.positions : q.ticket <= o.ticket
             exit_price == IF p.direction = "buy" THEN bid ELSE ask
             pnl == ClosePnl(p, exit_price)
         IN  CloseAllPositions(
                 RecordTradeExit([st EXCEPT !.positions = @ \ {p}, !.equity = @ + pnl],
                                 p.ticket, pnl, "backtest_end"),
                 bid, ask)

\* Closes of the last candle, points, and half the simulator's spread

\* run_backtest after its loop
CloseAll ==
    /\ phase = "closing"
    /\ \E close \in {199980, 200010}, half \in {0, 1} :
           LET bid == close - half
               ask == close + half
           IN  /\ Commit(CloseAllPositions(St, bid, ask), NoCycle)
               /\ stamps' = stamps \cup
                      {Stamp("backtest_end", p.ticket, now,
                             ClosePnl(p, IF p.direction = "buy" THEN bid ELSE ask)) :
                          p \in positions}
    /\ phase' = "done"
    /\ UNCHANGED <<m1_count, current_time_index, engineVars, simVars>>

NextRun == NoData \/ Iterate \/ CloseAll

\* The loop of run_backtest is sequential code: it keeps taking its next step
SpecRun == InitRun /\ [][NextRun]_vars /\ WF_vars(NextRun)

C26_SimulationClockOnly ==
    \A s \in stamps : s.time = SimulationTime(s.candle)

----------------------------------------------------------------------------
(* ExecutionLoop.run and shutdown.  loopExit tells where run is: "none"
   before the call, "looping" inside the while loop, "interrupted" in the
   handler of KeyboardInterrupt, "fatal" in the handler of Exception,
   "ended" after shutdown. *)

\* main(): the system is initialised, run has not been called
InitEngine ==
    /\ StartUp({Old(<<"loss_sl", "loss_time", "loss_sl">>)})
    /\ mode = "live"
    /\ IdleRest

\* run: self.running = True
StartRun ==
    /\ loopExit = "none"
    /\ running' = TRUE
    /\ loopExit' = "looping"
    /\ UNCHANGED <<breakerVars, sizerVars, loopVars, managerVars, probeVars, runVars, simVars,
                   connected, pool_open>>

\* while self.running: run_cycle()
EngineCycle ==
    /\ loopExit = "looping"
    /\ running
    /\ RunCycle

\* time.sleep(sleep_time)
Sleep ==
    /\ loopExit = "looping"
    /\ running
    /\ Wait

\* KeyboardInterrupt raised in _display_status or time.sleep, between cycles
InterruptBetweenCycles ==
    /\ loopExit = "looping"
    /\ running
    /\ loopExit' = "interrupted"
    /\ UNCHANGED <<breakerVars, sizerVars, loopVars, managerVars, probeVars, runVars, simVars,
                   running, connected, pool_open>>

\* KeyboardInterrupt raised inside run_cycle, after check_halts has returned
\* and before _monitor_positions is called: the handler of run_cycle catches
\* Exception only, so the cycle is left where it is
InterruptInCycle ==
    /\ loopExit = "looping"
    /\ running
    /\ LET trade_history == GetTradeHistory(history_limit)
           daily_pnl == CalculateDailyPnl(St)
           r == CheckHalts(cb, trade_history, daily_pnl, startingEquity, now)
           st1 == [St EXCEPT !.cb = r.cb, !.events = @ \o r.emitted]
       IN  Commit(st1, [NoCycle EXCEPT
                           !.ran = TRUE,
                           !.session_active = TRUE,
                           !.checked = TRUE,
                           !.flag = r.cb.halted,
                           !.ret_halted = r.ret.halted,
                           !.evaluated = {trade_history[i].ticket :
                                             i \in 1..Len(trade_history)}])
    /\ loopExit' = "interrupted"
    /\ UNCHANGED <<runVars, simVars, running, connected, pool_open>>

\* An exception raised in the loop outside the handlers of run_cycle and
\* _display_status
FatalError ==
    /\ loopExit = "looping"
    /\ running
    /\ loopExit' = "fatal"
    /\ UNCHANGED <<breakerVars, sizerVars, loopVars, managerVars, probeVars, runVars, simVars,
                   running, connected, pool_open>>

\* finally: self.shutdown().  Nothing but shutdown sets running to False, so
\* the loop is never left through its condition
Shutdown ==
    /\ loopExit \in {"interrupted", "fatal"}
    /\ running' = FALSE
    /\ connected' = FALSE
    /\ pool_open' = FALSE
    /\ loopExit' = "ended"
    /\ UNCHANGED <<breakerVars, sizerVars, loopVars, managerVars, probeVars, runVars, simVars>>

\* Mutant: run_cycle has no handler, what its calls raise reaches run.
CaughtBy_unhandled(where) ==
    IF where = "monitor_positions" THEN "_monitor_positions" ELSE "run"

\* The innermost handler of Exception around the call that raises:
\* _monitor_positions wraps its whole body, run_cycle wraps all of its own
CaughtBy(where) ==
    IF where = "monitor_positions" THEN "_monitor_positions" ELSE "run_cycle"

\* run_cycle in an active session with market data, when one of its calls
\* raises an Exception: the trade-history or the daily-P&L query of the
\* breaker phase (RuntimeError of the database), the position manager inside
\* _monitor_positions, or the signal generator.  What was done before the
\* call stays done; the statements after it up to the handler are not run.
FailingCycle ==
    /\ loopExit = "looping"
    /\ running
    /\ mode = "live"
    /\ \E where \in {"get_trade_history", "calculate_daily_pnl", "monitor_positions",
                     "generate_signal"},
          session_type \in {"prime", "acceptable"} :
           LET trade_history == GetTradeHistory(history_limit)
               daily_pnl == CalculateDailyPnl(St)
               r == CheckHalts(cb, trade_history, daily_pnl, startingEquity, now)
               st1 == [St EXCEPT !.cb = r.cb, !.events = @ \o r.emitted]
               started == [NoCycle EXCEPT !.ran = TRUE, !.session_active = TRUE,
                                          !.raised = where]
               checked == [started EXCEPT
                              !.checked = TRUE,
                              !.flag = r.cb.halted,
                              !.ret_halted = r.ret.halted,
                              !.evaluated = {trade_history[i].ticket :
                                                i \in 1..Len(trade_history)}]
           IN  /\ CASE where \in {"get_trade_history", "calculate_daily_pnl"} ->
                         Commit(St, started)
                    [] where = "monitor_positions" ->
                         LET st2 == RecordClosedByMt5(
                                        st1, st1.previous \ {p.ticket : p \in st1.positions})
                             cyc == [checked EXCEPT
                                        !.monitored = TRUE,
                                        !.recorded = ExitsRecorded(st1, st2),
                                        !.open_count = Cardinality(st2.positions)]
                         IN  IF r.ret.halted
                                \/ Cardinality(st2.positions) >= max_concurrent_positions
                             THEN Commit(st2, cyc)
                             ELSE EntryStage(st2, [cyc EXCEPT !.generated = TRUE],
                                             session_type, st2.positions)
                    [] OTHER ->
                         /\ ~r.ret.halted
                         /\ \E mon \in MonitorInputs(st1) :
                                LET st2 == MonitorPositions(st1, mon)
                                IN  /\ Cardinality(st2.positions) < max_concurrent_positions
                                    /\ Commit(st2, [checked EXCEPT
                                                       !.monitored = TRUE,
                                                       !.recorded = ExitsRecorded(st1, st2),
                                                       !.open_count =
                                                           Cardinality(st2.positions),
                                                       !.generated = TRUE])
               /\ loopExit' = IF CaughtBy(where) = "run" THEN "fatal" ELSE loopExit
    /\ UNCHANGED <<runVars, simVars, running, connected, pool_open>>

NextEngine ==
    \/ StartRun
    \/ EngineCycle
    \/ Sleep
    \/ BrokerClose
    \/ InterruptBetweenCycles
    \/ InterruptInCycle
    \/ FatalError
    \/ Shutdown

SpecEngine == InitEngine /\ [][NextEngine]_vars

\* C30: when an interrupt arrives while a cycle is in progress the cycle runs
\* to completion (a cycle that has checked the breaker has also monitored the
\* positions); afterwards the running flag is false and no further cycle
\* starts, and the broker session is released and the pool closed on every
\* way the loop ends.
C30_InterruptCompletesCycle ==
    /\ loopExit \in {"interrupted", "ended"}
           => (lastCycle.checked => lastCycle.monitored)
    /\ loopExit = "ended" => ~running /\ ~connected /\ ~pool_open

\* C34: after every call of check_halts the 'halted' value the call returned
\* equals the breaker's halted flag as get_current_state reports it.
C34_ReturnEqualsFlag ==
    lastCall.called => lastCall.ret.halted = cb.halted

\* C35: elapsed time alone never ends a halt: a check_halts call on a halted
\* breaker leaves the flag true and halt_start_time unchanged, also when a
\* halt predicate fires again, unless the elapsed time is at least the halt
\* duration and the trade history meets the reset conditions.
C35_HaltEndsOnlyByReset ==
    (/\ lastCall.called
     /\ lastCall.pre.halted
     /\ ~(/\ ElapsedAtCall >= halt_duration_minutes
          /\ CheckResetConditions(CallHistory)))
    => /\ cb.halted
       /\ cb.halt_start_time = lastCall.pre.halt_start_time
       /\ cb.halt_reason = lastCall.pre.halt_reason

C35_Witness ==
    /\ lastCall.called
    /\ lastCall.pre.halted
    /\ ElapsedAtCall >= halt_duration_minutes
    /\ ~CheckResetConditions(CallHistory)
    /\ ThreeConsecutiveLosses
    /\ cb.halted
    /\ cb.halt_start_time = lastCall.pre.halt_start_time

\* C36, as stated: the graduated response only tightens; a check_halts call on
\* a Running breaker never raises the risk percent and never lowers the
\* confidence threshold.
C36_OnlyTightens ==
    (lastCall.called /\ ~lastCall.pre.halted /\ ~cb.halted)
    => /\ cb.adjusted_risk_percent <= lastCall.pre.adjusted_risk_percent
       /\ cb.adjusted_confidence_threshold
              >= lastCall.pre.adjusted_confidence_threshold

\* C36, amended: a check_halts call on a Running breaker never raises the risk
\* percent and never sets the confidence threshold back to the configured
\* default, so a risk percent lowered after two losses stays lowered through
\* later winning trades; a call gives the defaults back only as a reset from
\* Halted to Running.  The threshold may go down from the two-loss value to
\* the one-loss value.
C36_NoReturnToDefaults ==
    /\ (lastCall.called /\ ~lastCall.pre.halted)
       => /\ cb.adjusted_risk_percent <= lastCall.pre.adjusted_risk_percent
          /\ cb.adjusted_confidence_threshold = min_confidence
                 => lastCall.pre.adjusted_confidence_threshold = min_confidence
          /\ cb.adjusted_confidence_threshold
                 >= lastCall.pre.adjusted_confidence_threshold
             \/ cb.adjusted_confidence_threshold = after_1_loss_confidence_threshold
    /\ (/\ lastCall.called
        /\ \/ /\ cb.adjusted_risk_percent = risk_per_trade
              /\ lastCall.pre.adjusted_risk_percent # risk_per_trade
           \/ /\ cb.adjusted_confidence_threshold = min_confidence
              /\ lastCall.pre.adjusted_confidence_threshold # min_confidence)
       => ResetTransition

C36_Witness ==
    /\ lastCall.called
    /\ ~lastCall.pre.halted
    /\ ~cb.halted
    /\ lastCall.pre.adjusted_risk_percent = after_2_losses_risk_percent
    /\ Len(CallHistory) >= 2
    /\ CallHistory[1].pnl > 0
    /\ CallHistory[2].pnl > 0
    /\ cb.adjusted_risk_percent = after_2_losses_risk_percent
    /\ cb.adjusted_confidence_threshold < lastCall.pre.adjusted_confidence_threshold

\* C37: the exit of a ticket is recorded at most once over a run: once a
\* ticket entered in this run has its exit in the trade table, no later step of the loop writes
\* the exit of that ticket again, so the recorded reason and P&L of a closed
\* trade never change; a position the engine closed in one cycle is not taken
\* for a broker close in the next
C37_ExitRecordedOnce ==
    [][\A i \in 1..Len(tradeHistory) : \A j \in 1..Len(tradeHistory') :
           (tradeHistory[i].ticket > 0 /\ tradeHistory'[j].ticket = tradeHistory[i].ticket)
               => /\ tradeHistory'[j].exit_reason = tradeHistory[i].exit_reason
                  /\ tradeHistory'[j].pnl = tradeHistory[i].pnl]_vars

\* C39: for every trade entered live, the stop loss stored in the entry record
\* of the trade equals the stop loss sent to the broker with the order, which
\* is the one attached to the position (the same holds of the take profit)
C39_RecordedStopIsSentStop ==
    mode = "live" =>
        \A p \in EnteredPositions : \A r \in dbOpen :
            r.ticket = p.ticket => r.stop_loss = p.sl

\* C33: the take-profit price evaluate_exits compares against, price_open +/-
\* stop distance * risk_reward_ratio, stays the same over the life of a
\* position: a call of monitor_positions that moves the stop loss of a
\* position (break-even protection, or the move to the entry after a partial
\* close) leaves the take-profit distance of the position as it was
C33_TakeProfitFixed ==
    [][lastMonitor'.called =>
           \A p \in positions : \A q \in positions' :
               q.ticket = p.ticket
                   => risk_reward_ratio * Dist(q.price_open, q.sl)
                          = risk_reward_ratio * Dist(p.price_open, p.sl)]_vars

----------------------------------------------------------------------------
(* The backtest simulator driven directly: any sequence of place_order,
   update_positions and close_position on one BacktestOrderExecutor and its
   connector.  positions, next_ticket and closed_trades are the executor's,
   accountEquity is the connector's virtual_equity, startingEquity the
   initial equity. *)

\* BacktestOrderExecutor.__init__ after BacktestMT5Connector.__init__
InitSim ==
    /\ cb = InitialBreaker
    /\ now = 0
    /\ tradeHistory = <<>>
    /\ newTrades = 0
    /\ events = <<>>
    /\ lastCall = NoCall
    /\ sizer = DefaultSizer
    /\ sizing = NoSizing
    /\ mode = "backtest"
    /\ positions = {}
    /\ deals = {}
    /\ previous_open_positions = {}
    /\ dbOpen = {}
    /\ accountEquity = 1000000
    /\ startingEquity = 1000000
    /\ next_ticket = first_ticket
    /\ lastCycle = NoCycle
    /\ IdleManager
    /\ IdleRest

\* What the simulator holds, as close_position and update_positions take it
Sim == [positions |-> positions, closed |-> closed_trades, equity |-> accountEquity]

\* The simulator after a call, with the call as the last one made
SimCommit(sim, call) ==
    /\ positions' = sim.positions
    /\ closed_trades' = sim.closed
    /\ accountEquity' = sim.equity
    /\ probe' = call
    /\ lastCall' = NoCall
    /\ sizing' = NoSizing
    /\ lastCycle' = NoCycle
    /\ UNCHANGED <<cb, now, tradeHistory, newTrades, events, sizer, mode, deals,
                   previous_open_positions, dbOpen, startingEquity, managerVars,
                   runVars, engineVars>>

\* BacktestOrderExecutor.place_order: nothing without a current candle, else
\* a position under the next ticket at the quote and the slippage drawn
SimPlaceOrder ==
    /\ next_ticket < first_ticket + MaxSimOrders
    /\ \E has_candle \in BOOLEAN, direction \in {"buy", "sell"}, fill \in FillInputs :
           LET entry_price == IF direction = "buy"
                              THEN 200000 + fill.quote + fill.slippage
                              ELSE 200000 - fill.quote - fill.slippage
               position == [ticket |-> next_ticket, direction |-> direction,
                            price_open |-> entry_price,
                            sl |-> IF direction = "buy" THEN 199967 ELSE 200033,
                            tp |-> IF direction = "buy" THEN 200040 ELSE 199960,
                            volume |-> 20]
           IN  IF has_candle
               THEN /\ SimCommit([Sim EXCEPT !.positions = @ \cup {position}],
                                 [fn |-> "place_order", ticket |-> next_ticket,
                                  was_open |-> FALSE])
                    /\ next_ticket' = next_ticket + 1
               ELSE /\ SimCommit(Sim, [fn |-> "place_order", ticket |-> 0,
                                       was_open |-> FALSE])
                    /\ next_ticket' = next_ticket

\* BacktestOrderExecutor.update_positions on the current candle
SimUpdatePositions ==
    /\ positions # {}
    /\ \E low \in CandleLevels, high \in CandleLevels :
           /\ low <= high
           /\ SimCommit(CloseListed(Sim, AllToClose(positions, low, high)),
                        [fn |-> "update_positions", ticket |-> 0, was_open |-> FALSE])
    /\ next_ticket' = next_ticket

\* BacktestOrderExecutor.close_position for any ticket, open, closed or never
\* issued, with the exit price and the exit time given
SimCallClosePosition ==
    /\ \E ticket \in first_ticket..next_ticket, exit_price \in {199980, 200010} :
           SimCommit(SimClosePosition(Sim, ticket, exit_price, "manual"),
                     [fn |-> "close_position", ticket |-> ticket,
                      was_open |-> \E p \in positions : p.ticket = ticket])
    /\ next_ticket' = next_ticket

NextSim == SimPlaceOrder \/ SimUpdatePositions \/ SimCallClosePosition

SpecSim == InitSim /\ [][NextSim]_vars

\* The sum of the P&L of the first n closed trades
RECURSIVE ClosedPnl(_)
ClosedPnl(n) == IF n = 0 THEN 0 ELSE ClosedPnl(n - 1) + closed_trades[n].pnl

\* The tickets place_order has given to a position
IssuedTickets == first_ticket..(next_ticket - 1)

\* C38: in the backtest simulator, after any sequence of place_order,
\* update_positions and close_position calls, every ticket is either open or
\* closed and never both, each position has been closed at most once, and
\* virtual_equity equals the initial equity plus the sum of the P&L of all
\* closed trades; closing a ticket that is not open changes nothing.
C38_SimulatorBookkeeping ==
    /\ [](/\ \A t \in IssuedTickets :
                (\E p \in positions : p.ticket = t)
                    # (\E i \in 1..Len(closed_trades) : closed_trades[i].ticket = t)
          /\ \A p \in positions : p.ticket \in IssuedTickets
          /\ \A i \in 1..Len(closed_trades) : closed_trades[i].ticket \in IssuedTickets
          /\ \A i \in 1..Len(closed_trades) : \A j \in 1..Len(closed_trades) :
                closed_trades[i].ticket = closed_trades[j].ticket => i = j
          /\ accountEquity = startingEquity + ClosedPnl(Len(closed_trades)))
    /\ [][(probe'.fn = "close_position" /\ ~probe'.was_open)
              => UNCHANGED <<positions, closed_trades, accountEquity, next_ticket>>]_vars

\* A position is open, another has been closed, and the last call was a
\* close_position for the ticket already closed
C38_Witness ==
    /\ positions # {}
    /\ closed_trades # <<>>
    /\ probe.fn = "close_position"
    /\ ~probe.was_open
    /\ \E i \in 1..Len(closed_trades) : closed_trades[i].ticket = probe.ticket

\* ExecutionLoop.run with cycles in which a call raises
NextFaults == StartRun \/ EngineCycle \/ FailingCycle \/ Sleep

SpecFaults == InitEngine /\ [][NextFaults]_vars

\* C31: an exception raised by a component during a cycle never propagates
\* out of run_cycle: a cycle in which a call raised leaves the loop in its
\* while loop with the running flag set, so that the next cycle starts.
C31_ExceptionsStayInCycle ==
    [][(lastCycle' # lastCycle /\ lastCycle'.raised # "none")
           => (loopExit' = "looping" /\ running')]_vars

\* A cycle in which the trade-history query raised has ended and the loop
\* goes on
C31_Witness ==
    /\ lastCycle.ran
    /\ lastCycle.raised = "get_trade_history"
    /\ loopExit = "looping"
    /\ running

\* C32: each phase of a cycle contains its own failures: a cycle in which the
\* trade-history or the daily-P&L query of the breaker phase failed has still
\* run the position monitoring of that cycle.
C32_MonitoringDespiteFailure ==
    (lastCycle.ran /\ lastCycle.raised \in {"get_trade_history", "calculate_daily_pnl"})
        => lastCycle.monitored

====
